---- MODULE Spec2Model ----
(***************************************************************************)
(* Proctored test-session engine of the interview portal backend:          *)
(*   app/services/session_manager.py  (SessionManager)                     *)
(*   app/api/v1/sessions.py           (the request handlers)               *)
(*   app/services/grading_engine.py   (GradingEngine)                      *)
(*                                                                         *)
(* The store is the hosted Postgres reached through one client call per    *)
(* statement; the handlers are coroutines of independent HTTP requests,    *)
(* so every .execute() is one atomic step and the steps of different       *)
(* requests interleave freely.  A request slot p of Procs runs one handler *)
(* at a time; req[p].pc is its position in the handler.                    *)
(*                                                                         *)
(* One invitation (and its test) is modelled: every query of the handlers  *)
(* filters on the invitation id or on a session token, so the rows of      *)
(* different invitations never meet.                                       *)
(***************************************************************************)
EXTENDS Integers, Sequences, FiniteSets, TLC

\* ------------------------------------------------------------------ bounds
NumProcs == 2
MaxTime == 3
MaxSessions == 2
MaxCalls == 4
TestDuration == 1
InvitationExpiry == 2
TestTotalMarks == 10

\* NULL of a timestamp or numeric column (a column the insert leaves out)
Null == -1

Procs == 1..NumProcs

VARIABLES
    now,          \* datetime.utcnow(), in ticks
    invitation,   \* the test_invitations row
    test,         \* the tests row the invitation points to
    sessions,     \* test_sessions rows of the invitation, in insertion order
    submissions,  \* submissions rows, in insertion order
    activity_logs,\* session_activity_logs rows
    issued,       \* session tokens handed to the candidate in a response
    req,          \* the requests in flight
    questions,    \* the questions table
    test_questions, \* the test_questions rows of the test: question ids, in question_order
    grading_logs, \* grading_logs rows, in insertion order
    budget        \* the requests the clients may still make, or Unlimited

vars == <<now, invitation, test, sessions, submissions, activity_logs, issued, req,
          questions, test_questions, budget, grading_logs>>

\* ------------------------------------------------------------- rows, reads
\* no row: the id no session carries
NoSession == 0

SessionIds == 1..Len(sessions)

\* .eq('invitation_id', id).neq('status', 'terminated')
NonTerminated == {s \in SessionIds : sessions[s].status # "terminated"}

\* [s for s in existing.data if not s.get('is_completed')]
ActiveOf(ids) == {s \in ids : ~sessions[s].is_completed}

\* .eq('session_token', token): tokens are unique, at most one row matches
ByToken(tok) == {s \in SessionIds : sessions[s].session_token = tok}

IdOfToken(tok) == CHOOSE s \in ByToken(tok) : TRUE

\* the invitation_token of the invitation, and one of no invitation
InvitationToken == 0

UnknownToken == 1

\* secrets.token_urlsafe + sha256: a value no existing row carries
generate_session_token(rows) == Len(rows) + 1

\* datetime.utcnow() > expires_at
Past(expires_at) == now > expires_at

\* ---------------------------------------------------------------- requests
\* A response: success or the error, resumed / is_resuming, and the id of the
\* session row it carries (NoSession when it carries none); ret names the return
\* statement of the complete handler that produced it.
NoRes == [ok |-> FALSE, error |-> "none", resumed |-> FALSE, sid |-> NoSession,
          ret |-> "none"]

NoScore == [total_marks_obtained |-> 0, total_marks |-> 0, percentage_score |-> 0]

\* a submit request's body, and what the code executor answers while it is graded
NoAnswer == [code_answer |-> "null", mcq_selected_options |-> {}, text_answer |-> "null"]

NoRun == [success |-> FALSE, passed |-> {}, output |-> <<>>, runtime |-> 0]

NoGrading == [status |-> "none"]

\* op, tok, q, answer, run and atype are the call and its inputs; sid, sub,
\* grading and score are the handler's locals
IdleReq == [op |-> "idle", pc |-> "idle", tok |-> 0, q |-> 0, answer |-> NoAnswer,
            run |-> NoRun, atype |-> "none", sid |-> NoSession, sub |-> 0,
            grading |-> NoGrading, score |-> NoScore, sanitized |-> <<>>, res |-> NoRes]

Ok(sid, resumed) == [NoRes EXCEPT !.ok = TRUE, !.resumed = resumed, !.sid = sid]

Err(msg) == [NoRes EXCEPT !.error = msg]

Finish(p, res) ==
    [req EXCEPT ![p] = [IdleReq EXCEPT !.op = req[p].op, !.tok = req[p].tok,
                                       !.pc = "done", !.res = res]]

Goto(p, label) == [req EXCEPT ![p].pc = label]

GotoWith(p, label, sid) == [req EXCEPT ![p].pc = label, ![p].sid = sid]

At(p, label) == req[p].pc = label

Free(p) == req[p].pc \in {"idle", "done"}

StartsInFlight == Cardinality({q \in Procs : req[q].op = "start_session" /\ ~Free(q)})

\* ------------------------------------------------------------ questions
\* a test case whose dict has no 'marks' key (a test case stored with the key
\* and no value carries Null)
Absent == -2

\* round(x, 2): marks obtained and percentages are kept in hundredths
Cents == 100

\* The values of a result row as json.loads yields them: the number 5 and the
\* strings "5", "A" and "a".
SqlValues == {"int 5", "str 5", "str A", "str a"}

\* str(v).lower()
LowerStr(v) ==
    CASE v = "int 5" -> "5"
      [] v = "str 5" -> "5"
      [] v = "str A" -> "a"
      [] v = "str a" -> "a"

\* The questions table before the candidate's first request: an MCQ question, a
\* coding question with two test cases as the create endpoint stores them, an
\* SQL question and a descriptive one.
QuestionBank ==
    <<[question_type |-> "mcq", marks |-> 5, mcq_options |-> {1, 2}, correct |-> {1},
       is_multiple_correct |-> FALSE, test_cases |-> <<>>],
      [question_type |-> "python", marks |-> 5, mcq_options |-> {}, correct |-> {},
       is_multiple_correct |-> FALSE, test_cases |-> <<[marks |-> Null], [marks |-> Null]>>],
      [question_type |-> "sql", marks |-> 3, mcq_options |-> {}, correct |-> {},
       is_multiple_correct |-> FALSE, test_cases |-> <<>>,
       expected_query_result |-> <<[a |-> "int 5"]>>,
       query_results |-> {<<[a |-> "int 5"]>>, <<>>}],
      [question_type |-> "descriptive", marks |-> 2, mcq_options |-> {}, correct |-> {},
       is_multiple_correct |-> FALSE, test_cases |-> <<>>]>>

\* ------------------------------------------------------------------- Init
\* the test_questions rows of a test made of every question of the table
OnTest(table) == [i \in 1..Len(table) |-> i]

\* the store before the candidate's first request
Fresh ==
    /\ now = 0
    /\ invitation = [is_used |-> FALSE, expires_at |-> InvitationExpiry]
    /\ test \in {[is_published |-> b, duration_minutes |-> TestDuration,
                  total_marks |-> TestTotalMarks] : b \in BOOLEAN}
    /\ sessions = <<>>
    /\ submissions = <<>>
    /\ activity_logs = <<>>
    /\ grading_logs = <<>>
    /\ issued = {}
    /\ req = [p \in Procs |-> IdleReq]
    /\ questions = QuestionBank
    /\ test_questions = OnTest(questions)

\* a budget that is never spent
Unlimited == MaxCalls + 1

Init == Fresh /\ budget = MaxCalls

SeqInit == Fresh /\ budget = Unlimited

\* the clock
Tick ==
    /\ now < MaxTime
    /\ now' = now + 1
    /\ UNCHANGED <<test_questions, questions, grading_logs, invitation, test, sessions, submissions, activity_logs, issued, req, budget>>

\* --------------------------------------------------- request entry points
Spend == budget # 0 /\ budget' = IF budget = Unlimited THEN budget ELSE budget - 1

Begin(p, op, pc, tok) ==
    /\ Free(p)
    /\ req' = [req EXCEPT ![p] = [IdleReq EXCEPT !.op = op, !.pc = pc, !.tok = tok]]
    /\ Spend
    /\ UNCHANGED <<test_questions, questions, grading_logs, now, invitation, test, sessions, submissions, activity_logs, issued>>

\* GET /sessions/invitations/validate/{invitation_token}
CallValidateInvitation(p) ==
    \E t \in {InvitationToken, UnknownToken} : Begin(p, "validate_invitation", "vi_read", t)

\* POST /sessions/start
CallStartSession(p) ==
    /\ Len(sessions) + StartsInFlight < MaxSessions \/ NonTerminated # {}
    /\ Begin(p, "start_session", "vi_read", InvitationToken)

\* GET /sessions/validate/{session_token}
CallValidateSession(p) == \E t \in issued : Begin(p, "validate_session", "vs_read", t)

\* POST /sessions/{session_token}/complete
CallComplete(p) == \E t \in issued : Begin(p, "complete", "cs_lookup", t)

\* SessionManager.terminate_session(session_id)
CallTerminateSession(p) == \E s \in SessionIds : Begin(p, "terminate_session", "ts_write", s)

\* POST /sessions/admin/invitation/{invitation_id}/reset
CallResetSession(p) == Begin(p, "reset_session", "rs_read", 0)

\* ------------------------------------------------- validate_invitation
\* a caller that goes on to start a session whatever validate_invitation answered
AfterValidateInvitationUnchecked(p, v) ==
    IF req[p].op = "validate_invitation" THEN Finish(p, v)
    ELSE IF v.resumed /\ v.sid # NoSession THEN Finish(p, Ok(v.sid, TRUE))
    ELSE Goto(p, "ss_existing")

\* what the caller of validate_invitation does with its result
AfterValidateInvitation(p, v) ==
    IF req[p].op = "validate_invitation" THEN Finish(p, v)
    ELSE IF ~v.ok THEN Finish(p, Err(v.error))
    ELSE IF v.resumed /\ v.sid # NoSession THEN Finish(p, Ok(v.sid, TRUE))
    ELSE Goto(p, "ss_existing")

\* the invitation read (joined with its test) and the checks made on it; a token
\* no invitation carries is refused (whether .single() yields no data or raises,
\* the answer is valid = False)
ViRead(p) ==
    /\ At(p, "vi_read")
    /\ req' = IF req[p].tok = UnknownToken
                THEN AfterValidateInvitation(p, Err("Invalid invitation token"))
              ELSE IF invitation.is_used
                THEN Goto(p, "vi_sessions")
              ELSE IF Past(invitation.expires_at)
                THEN AfterValidateInvitation(p, Err("This invitation has expired."))
              ELSE IF ~test.is_published
                THEN AfterValidateInvitation(p, Err("This test has not been published yet."))
              ELSE AfterValidateInvitation(p, Ok(NoSession, FALSE))
    /\ UNCHANGED <<test_questions, questions, grading_logs, now, invitation, test, sessions, submissions, activity_logs, issued, budget>>

\* a look-up of the sessions that frees a used invitation left without a live
\* session
ViSessionsReleasing(p) ==
    /\ At(p, "vi_sessions")
    /\ LET active == ActiveOf(NonTerminated) IN
       IF active # {}
         THEN \E s \in active :
                /\ req' = AfterValidateInvitation(p, Ok(s, TRUE))
                /\ issued' = issued \cup {sessions[s].session_token}
                /\ invitation' = invitation
         ELSE /\ req' = AfterValidateInvitation(p, Err("This invitation has already been used."))
              /\ issued' = issued
              /\ invitation' = [invitation EXCEPT !.is_used = FALSE]
    /\ UNCHANGED <<test_questions, questions, grading_logs, now, test, sessions, submissions, activity_logs, budget>>

\* the used invitation: its non-terminated sessions, the first not completed
\* (the query states no order, so the first is any of them)
ViSessions(p) ==
    /\ At(p, "vi_sessions")
    /\ LET active == ActiveOf(NonTerminated) IN
       IF active # {}
         THEN \E s \in active :
                /\ req' = AfterValidateInvitation(p, Ok(s, TRUE))
                /\ issued' = issued \cup {sessions[s].session_token}
         ELSE /\ req' = AfterValidateInvitation(p, Err("This invitation has already been used."))
              /\ issued' = issued
    /\ UNCHANGED <<test_questions, questions, grading_logs, now, invitation, test, sessions, submissions, activity_logs, budget>>

\* ------------------------------------------------------- start_session
\* a look-up that gives the session it resumes a new deadline
SsExistingRenewing(p) ==
    /\ At(p, "ss_existing")
    /\ IF NonTerminated # {}
         THEN \E s \in NonTerminated :
                IF ~sessions[s].is_completed
                  THEN /\ req' = Finish(p, Ok(s, TRUE))
                       /\ issued' = issued \cup {sessions[s].session_token}
                       /\ sessions' = [sessions EXCEPT
                                         ![s].expires_at = now + test.duration_minutes]
                  ELSE /\ req' = Finish(p, Err("This test has already been completed."))
                       /\ issued' = issued
                       /\ sessions' = sessions
         ELSE /\ req' = Goto(p, "ss_insert")
              /\ issued' = issued
              /\ sessions' = sessions
    /\ UNCHANGED <<test_questions, questions, grading_logs, now, invitation, test, submissions, activity_logs, budget>>

\* the defensive look-up of a session of the invitation, data[0] of the result
SsExisting(p) ==
    /\ At(p, "ss_existing")
    /\ IF NonTerminated # {}
         THEN \E s \in NonTerminated :
                IF ~sessions[s].is_completed
                  THEN /\ req' = Finish(p, Ok(s, TRUE))
                       /\ issued' = issued \cup {sessions[s].session_token}
                  ELSE /\ req' = Finish(p, Err("This test has already been completed."))
                       /\ issued' = issued
         ELSE /\ req' = Goto(p, "ss_insert")
              /\ issued' = issued
    /\ UNCHANGED <<test_questions, questions, grading_logs, now, invitation, test, sessions, submissions, activity_logs, budget>>

\* session_data
NewSession(rows) ==
    [session_token |-> generate_session_token(rows),
     status |-> "active",
     is_active |-> TRUE,
     is_completed |-> FALSE,
     is_expired |-> FALSE,
     started_at |-> now,
     expires_at |-> now + test.duration_minutes,
     ended_at |-> Null,
     last_activity_at |-> Null,
     total_marks |-> test.total_marks,
     total_marks_obtained |-> 0,
     percentage_score |-> Null,
     suspicious_activity_count |-> 0,
     admin_comments |-> "none"]

\* the test look-up and the insert of the session row
SsInsert(p) ==
    /\ At(p, "ss_insert")
    /\ Len(sessions) < MaxSessions
    /\ sessions' = Append(sessions, NewSession(sessions))
    /\ req' = GotoWith(p, "ss_mark_used", Len(sessions) + 1)
    /\ UNCHANGED <<test_questions, questions, grading_logs, now, invitation, test, submissions, activity_logs, issued, budget>>

\* the invitation update, and the response
SsMarkUsed(p) ==
    /\ At(p, "ss_mark_used")
    /\ invitation' = [invitation EXCEPT !.is_used = TRUE]
    /\ req' = Finish(p, Ok(req[p].sid, FALSE))
    /\ issued' = issued \cup {sessions[req[p].sid].session_token}
    /\ UNCHANGED <<test_questions, questions, grading_logs, now, test, sessions, submissions, activity_logs, budget>>

\* the process stops between the insert and the invitation update: the
\* request ends without an answer
SsCrash(p) ==
    /\ At(p, "ss_mark_used")
    /\ req' = Finish(p, Err("no response"))
    /\ UNCHANGED <<test_questions, questions, grading_logs, now, invitation, test, sessions, submissions, activity_logs, issued, budget>>

\* ----------------------------------------------------- validate_session
\* a caller that goes on with its request whatever validate_session answered
AfterValidateSessionUnchecked(p, valid, error) ==
    CASE req[p].op = "validate_session" ->
           Finish(p, IF valid THEN Ok(req[p].sid, FALSE) ELSE Err(error))
      [] req[p].op = "complete" ->
           [req EXCEPT ![p].pc = "cs_write", ![p].sid = IdOfToken(req[p].tok)]
      [] req[p].op = "submit" ->
           [req EXCEPT ![p].pc = "sb_existing", ![p].sid = IdOfToken(req[p].tok)]
      [] req[p].op = "log_activity" ->
           [req EXCEPT ![p].pc = "la_insert", ![p].sid = IdOfToken(req[p].tok)]
      [] req[p].op = "get_questions" ->
           [req EXCEPT ![p].pc = "gq_read", ![p].sid = IdOfToken(req[p].tok)]

\* what the caller of validate_session does with its result
AfterValidateSession(p, valid, error) ==
    CASE req[p].op = "validate_session" ->
           Finish(p, IF valid THEN Ok(req[p].sid, FALSE) ELSE Err(error))
      [] req[p].op = "complete" ->
           IF valid THEN Goto(p, "cs_write")
           ELSE [req EXCEPT ![p].pc = "cs_fresh", ![p].res = Err(error)]
      [] req[p].op = "submit" ->
           IF valid THEN Goto(p, "sb_existing") ELSE Finish(p, Err(error))
      [] req[p].op = "log_activity" ->
           IF valid THEN Goto(p, "la_insert") ELSE Finish(p, Err(error))
      [] req[p].op = "get_questions" ->
           IF valid THEN Goto(p, "gq_read") ELSE Finish(p, Err(error))

\* the session read and the checks made on it
VsRead(p) ==
    /\ At(p, "vs_read")
    /\ LET id == IdOfToken(req[p].tok) IN
       req' = IF sessions[id].is_completed
                THEN AfterValidateSession(p, FALSE, "Test already completed")
              ELSE IF Past(sessions[id].expires_at)
                THEN GotoWith(p, "vs_expire", id)
              ELSE GotoWith(p, "vs_touch", id)
    /\ UNCHANGED <<test_questions, questions, grading_logs, now, invitation, test, sessions, submissions, activity_logs, issued, budget>>

\* an expiry that sets the flag and leaves status and is_active
expire_session_flag_only(id) ==
    [sessions EXCEPT ![id].is_expired = TRUE, ![id].ended_at = now]

\* SessionManager.expire_session
expire_session(id) ==
    [sessions EXCEPT ![id].status = "expired", ![id].is_active = FALSE,
                     ![id].is_expired = TRUE, ![id].ended_at = now]

VsExpire(p) ==
    /\ At(p, "vs_expire")
    /\ sessions' = expire_session(req[p].sid)
    /\ req' = AfterValidateSession(p, FALSE, "Test session expired")
    /\ UNCHANGED <<test_questions, questions, grading_logs, now, invitation, test, submissions, activity_logs, issued, budget>>

\* SessionManager.update_activity
update_activity(id) == [sessions EXCEPT ![id].last_activity_at = now]

VsTouch(p) ==
    /\ At(p, "vs_touch")
    /\ sessions' = update_activity(req[p].sid)
    /\ req' = AfterValidateSession(p, TRUE, "none")
    /\ UNCHANGED <<test_questions, questions, grading_logs, now, invitation, test, submissions, activity_logs, issued, budget>>

\* ------------------------------------------------------ complete_session
\* a look-up that lets only an expired session through as it is
AlreadyFinalExpiredOnly(row) == row.status = "expired"

\* the handler's own look-up: a completed or expired session is returned as it is
AlreadyFinal(row) == row.is_completed \/ row.status \in {"completed", "expired"}

CsLookup(p) ==
    /\ At(p, "cs_lookup")
    /\ LET id == IdOfToken(req[p].tok) IN
       req' = IF AlreadyFinal(sessions[id])
                THEN Finish(p, [Ok(id, FALSE) EXCEPT !.ret = "session_row"])
                ELSE GotoWith(p, "vs_read", id)
    /\ UNCHANGED <<test_questions, questions, grading_logs, now, invitation, test, sessions, submissions, activity_logs, issued, budget>>

\* validate_session refused: the row is read again
CsFresh(p) ==
    /\ At(p, "cs_fresh")
    /\ LET id == IdOfToken(req[p].tok) IN
       req' = IF sessions[id].is_completed
                THEN Finish(p, [Ok(id, FALSE) EXCEPT !.ret = "fresh"])
                ELSE Finish(p, req[p].res)
    /\ UNCHANGED <<test_questions, questions, grading_logs, now, invitation, test, sessions, submissions, activity_logs, issued, budget>>

\* SessionManager.complete_session: the update, whose response is the row
complete_session(id) ==
    [sessions EXCEPT ![id].status = "completed", ![id].is_active = FALSE,
                     ![id].is_completed = TRUE, ![id].ended_at = now]

CsWrite(p) ==
    /\ At(p, "cs_write")
    /\ sessions' = complete_session(req[p].sid)
    /\ req' = Goto(p, "score_read")
    /\ UNCHANGED <<test_questions, questions, grading_logs, now, invitation, test, submissions, activity_logs, issued, budget>>

\* ------------------------------------------------------------ arithmetic
Max(a, b) == IF a > b THEN a ELSE b

Min(a, b) == IF a < b THEN a ELSE b

Bool(b) == IF b THEN "true" ELSE "false"

\* round(a / b, 0) for a >= 0 and b > 0: to the nearest, a tie to the even one
RoundDiv(a, b) ==
    LET q == a \div b
        r == a % b
    IN IF 2 * r < b THEN q
       ELSE IF 2 * r > b THEN q + 1
       ELSE IF q % 2 = 0 THEN q ELSE q + 1

\* ----------------------------------------------- calculate_session_score
\* a sum that takes the marks of every submission, whatever its status
RECURSIVE SumAnyStatus(_, _, _)
SumAnyStatus(rows, id, n) ==
    IF n = 0 THEN 0
    ELSE SumAnyStatus(rows, id, n - 1)
         + (IF rows[n].session_id = id THEN rows[n].marks_obtained ELSE 0)

\* sum(float(sub.get('marks_obtained', 0)) ... if sub.get('status') == 'graded')
RECURSIVE SumGraded(_, _, _)
SumGraded(rows, id, n) ==
    IF n = 0 THEN 0
    ELSE SumGraded(rows, id, n - 1)
         + (IF rows[n].session_id = id /\ rows[n].status = "graded"
              THEN rows[n].marks_obtained ELSE 0)

RECURSIVE SumMax(_, _, _)
SumMax(rows, id, n) ==
    IF n = 0 THEN 0
    ELSE SumMax(rows, id, n - 1)
         + (IF rows[n].session_id = id THEN rows[n].max_marks ELSE 0)

\* a calculation that adds the marks to those the session row already holds
ScoreAccumulating(id) ==
    LET obtained == sessions[id].total_marks_obtained
                      + SumGraded(submissions, id, Len(submissions))
        total == IF test.total_marks # 0 THEN test.total_marks
                 ELSE SumMax(submissions, id, Len(submissions))
    IN [total_marks_obtained |-> obtained,
        total_marks |-> total,
        percentage_score |-> IF total > 0 THEN RoundDiv(obtained * 100, total) ELSE 0]

\* a calculation without the fall back to the submissions' max_marks
ScoreOfTestOnly(id) ==
    LET obtained == SumGraded(submissions, id, Len(submissions))
        total == test.total_marks
    IN [total_marks_obtained |-> obtained,
        total_marks |-> total,
        percentage_score |-> IF total > 0 THEN RoundDiv(obtained * 100, total) ELSE 0]

\* the three reads: the submissions, the session's test, the test's total
Score(id) ==
    LET obtained == SumGraded(submissions, id, Len(submissions))
        total == IF test.total_marks # 0 THEN test.total_marks
                 ELSE SumMax(submissions, id, Len(submissions))
    IN [total_marks_obtained |-> obtained,
        total_marks |-> total,
        percentage_score |-> IF total > 0 THEN RoundDiv(obtained * 100, total) ELSE 0]

ScoreRead(p) ==
    /\ At(p, "score_read")
    /\ req' = [req EXCEPT ![p].pc = "score_write", ![p].score = Score(req[p].sid)]
    /\ UNCHANGED <<test_questions, questions, grading_logs, now, invitation, test, sessions, submissions, activity_logs, issued, budget>>

\* the update of the session row with the score, and what the handler does next
ScoreWrite(p) ==
    /\ At(p, "score_write")
    /\ LET id == req[p].sid
           sc == req[p].score IN
       sessions' = [sessions EXCEPT ![id].total_marks_obtained = sc.total_marks_obtained,
                                    ![id].total_marks = sc.total_marks,
                                    ![id].percentage_score = sc.percentage_score]
    /\ req' = CASE req[p].op = "submit" -> Goto(p, "sb_final")
                [] req[p].op = "calculate_session_score" ->
                     [req EXCEPT ![p].pc = "done", ![p].res = Ok(req[p].sid, FALSE)]
                [] OTHER -> Finish(p, Ok(req[p].sid, FALSE))
    /\ UNCHANGED <<test_questions, questions, grading_logs, now, invitation, test, submissions, activity_logs, issued, budget>>

\* ----------------------------------------------------- terminate_session
terminate_session(id) ==
    [sessions EXCEPT ![id].status = "terminated", ![id].is_active = FALSE,
                     ![id].ended_at = now, ![id].admin_comments = "terminated"]

\* a terminate_session that also frees the invitation
TsWriteClearing(p) ==
    /\ At(p, "ts_write")
    /\ sessions' = terminate_session(req[p].tok)
    /\ invitation' = [invitation EXCEPT !.is_used = FALSE]
    /\ req' = Finish(p, Ok(NoSession, FALSE))
    /\ UNCHANGED <<test_questions, questions, grading_logs, now, test, submissions, activity_logs, issued, budget>>

TsWrite(p) ==
    /\ At(p, "ts_write")
    /\ sessions' = terminate_session(req[p].tok)
    /\ req' = Finish(p, Ok(NoSession, FALSE))
    /\ UNCHANGED <<test_questions, questions, grading_logs, now, invitation, test, submissions, activity_logs, issued, budget>>

\* --------------------------------------------------------- reset_session
\* the read of the invitation's non-terminated sessions; data[0] is the old one
RsRead(p) ==
    /\ At(p, "rs_read")
    /\ IF NonTerminated # {}
         THEN \E s \in NonTerminated : req' = GotoWith(p, "rs_terminate", s)
         ELSE req' = Goto(p, "rs_clear")
    /\ UNCHANGED <<test_questions, questions, grading_logs, now, invitation, test, sessions, submissions, activity_logs, issued, budget>>

RsTerminate(p) ==
    /\ At(p, "rs_terminate")
    /\ sessions' = [sessions EXCEPT ![req[p].sid].status = "terminated",
                                    ![req[p].sid].is_active = FALSE,
                                    ![req[p].sid].admin_comments = "reset"]
    /\ req' = Goto(p, "rs_clear")
    /\ UNCHANGED <<test_questions, questions, grading_logs, now, invitation, test, submissions, activity_logs, issued, budget>>

RsClear(p) ==
    /\ At(p, "rs_clear")
    /\ invitation' = [invitation EXCEPT !.is_used = FALSE]
    /\ req' = Finish(p, Ok(NoSession, FALSE))
    /\ UNCHANGED <<test_questions, questions, grading_logs, now, test, sessions, submissions, activity_logs, issued, budget>>

\* ------------------------------------------------------------ questions
Questions == 1..Len(questions)

\* what the code executor reports of one execution, in milliseconds
Runtime == 7

\* the bodies a candidate posts for a question
Answers(q) ==
    CASE questions[q].question_type = "mcq" ->
           {[NoAnswer EXCEPT !.mcq_selected_options = sel] :
              sel \in SUBSET questions[q].mcq_options}
      [] questions[q].question_type = "descriptive" ->
           {[NoAnswer EXCEPT !.text_answer = "text"]}
      [] OTHER ->
           {[NoAnswer EXCEPT !.code_answer = c] : c \in {"", "code"}}

\* what the code executor may answer for a question's executions
Runs(q) ==
    CASE questions[q].question_type \in {"python", "javascript"} ->
           {[NoRun EXCEPT !.success = TRUE, !.passed = ps, !.runtime = Runtime] :
              ps \in SUBSET (1..Len(questions[q].test_cases))}
      [] questions[q].question_type = "sql" ->
           {[NoRun EXCEPT !.success = b, !.output = o, !.runtime = Runtime] :
              b \in BOOLEAN, o \in questions[q].query_results}
      [] OTHER -> {NoRun}

\* -------------------------------------------------------- grading engine
\* an exception that leaves grade_submission
Raised(exception) == [status |-> "raised", exception |-> exception]

\* an MCQ grading that accepts any selection within the correct options
grade_mcq_subset(question, answer) ==
    LET is_correct == answer.mcq_selected_options \subseteq question.correct IN
    [grading_type |-> "auto", is_correct |-> Bool(is_correct),
     marks_obtained |-> IF is_correct THEN question.marks * Cents ELSE 0,
     max_marks |-> question.marks, auto_graded |-> TRUE, status |-> "graded"]

\* GradingEngine._grade_mcq
grade_mcq(question, answer) ==
    LET correct_options == question.correct
        selected_set == answer.mcq_selected_options
        max_marks == question.marks
        is_correct == selected_set = correct_options
        total_correct == Cardinality(correct_options)
        correctly_selected == Cardinality(selected_set \cap correct_options)
        incorrectly_selected == Cardinality(selected_set \ correct_options)
        marks_obtained ==
            IF question.is_multiple_correct
              THEN IF correctly_selected > incorrectly_selected
                     THEN RoundDiv((correctly_selected - incorrectly_selected)
                                     * max_marks * Cents, total_correct)
                     ELSE 0
              ELSE IF is_correct THEN max_marks * Cents ELSE 0
    IN IF question.is_multiple_correct /\ total_correct = 0
         THEN Raised("ZeroDivisionError")
         ELSE [grading_type |-> "auto", is_correct |-> Bool(is_correct),
               marks_obtained |-> marks_obtained, max_marks |-> max_marks,
               auto_graded |-> TRUE, status |-> "graded"]

\* the elements of a list
Range(list) == {list[i] : i \in 1..Len(list)}

\* list.count(x)
Count(list, x) == Cardinality({i \in 1..Len(list) : list[i] = x})

\* a row left as json.loads yields it
raw_row(row) == row

\* normalize_row: tuple(sorted((k, str(v).lower()) for k, v in row.items())), the
\* pairs of a dict whose keys are the row's and whose values are lower-cased strings
normalize_row(row) == [k \in DOMAIN row |-> LowerStr(row[k])]

\* sorted(a) == sorted(b): the same elements, each as many times
SortedEqual(a, b) ==
    /\ Len(a) = Len(b)
    /\ \A x \in Range(a) \cup Range(b) : Count(a, x) = Count(b, x)

\* GradingEngine._compare_sql_results on two lists of rows
compare_sql_results(actual_json, expected_json) ==
    IF actual_json = expected_json THEN TRUE
    ELSE IF Len(actual_json) # Len(expected_json) THEN FALSE
    ELSE SortedEqual([i \in 1..Len(actual_json) |-> normalize_row(actual_json[i])],
                     [i \in 1..Len(expected_json) |-> normalize_row(expected_json[i])])

\* GradingEngine._grade_sql: the code executor fails, or its rows are compared
grade_sql(question, run) ==
    IF ~run.success
      THEN [grading_type |-> "auto", is_correct |-> "false", marks_obtained |-> 0,
            max_marks |-> question.marks, auto_graded |-> TRUE, status |-> "error",
            execution_output |-> "error", execution_error |-> "error",
            execution_time_ms |-> run.runtime, test_cases_passed |-> 0,
            test_cases_total |-> Len(question.test_cases)]
      ELSE LET is_correct == compare_sql_results(run.output,
                                                  question.expected_query_result) IN
           [grading_type |-> "auto", is_correct |-> Bool(is_correct),
            marks_obtained |-> IF is_correct THEN question.marks * Cents ELSE 0,
            max_marks |-> question.marks, auto_graded |-> TRUE, status |-> "graded",
            execution_output |-> "rows", execution_time_ms |-> run.runtime,
            test_cases_passed |-> IF is_correct THEN 1 ELSE 0,
            test_cases_total |-> 1]

\* total_marks_scored after the first n test cases, in units of 1 / (Cents * Len):
\* test_case.get('marks', marks_per_test) is marks_per_test = max_marks / Len
\* without the key; with the key and no value the addition raises inside the
\* loop's try and the marks stay as they were
RECURSIVE MarksScored(_, _, _, _)
MarksScored(test_cases, passed, max_marks, n) ==
    IF n = 0 THEN 0
    ELSE MarksScored(test_cases, passed, max_marks, n - 1)
         + (IF n \notin passed \/ test_cases[n].marks = Null THEN 0
            ELSE IF test_cases[n].marks = Absent THEN max_marks * Cents
            ELSE test_cases[n].marks * Cents * Len(test_cases))

\* GradingEngine._grade_general_coding
grade_general_coding(question, run) ==
    LET test_cases == question.test_cases
        n == Len(test_cases)
    IN IF n = 0
         THEN [grading_type |-> "auto", is_correct |-> "false", marks_obtained |-> 0,
               max_marks |-> question.marks, auto_graded |-> FALSE,
               status |-> "executed", execution_output |-> "out",
               execution_error |-> "null", execution_time_ms |-> run.runtime,
               test_cases_passed |-> 0, test_cases_total |-> 0]
         ELSE [grading_type |-> "auto",
               is_correct |-> Bool(Cardinality(run.passed) = n),
               marks_obtained |->
                   RoundDiv(Min(MarksScored(test_cases, run.passed, question.marks, n),
                                question.marks * Cents * n), n),
               max_marks |-> question.marks, auto_graded |-> TRUE, status |-> "graded",
               execution_output |-> "out", execution_time_ms |-> n * run.runtime,
               test_cases_passed |-> Cardinality(run.passed),
               test_cases_total |-> n]

\* not code or not code.strip()
NoCode(code) == code \in {"null", "", " "}

\* GradingEngine._grade_coding
grade_coding(question, answer, run) ==
    IF NoCode(answer.code_answer)
      THEN [grading_type |-> "auto", is_correct |-> "false", marks_obtained |-> 0,
            max_marks |-> question.marks, auto_graded |-> TRUE, status |-> "graded",
            execution_error |-> "No code provided", test_cases_passed |-> 0,
            test_cases_total |-> Len(question.test_cases)]
      ELSE IF question.question_type = "sql" THEN grade_sql(question, run)
      ELSE grade_general_coding(question, run)

\* GradingEngine._grade_descriptive_pending
grade_descriptive_pending ==
    [grading_type |-> "manual", is_correct |-> "null", marks_obtained |-> 0,
     auto_graded |-> FALSE, manually_graded |-> FALSE, status |-> "pending"]

\* GradingEngine.grade_submission
grade_submission(question, answer, run) ==
    CASE question.question_type = "mcq" -> grade_mcq(question, answer)
      [] question.question_type \in {"sql", "python", "javascript"} ->
           grade_coding(question, answer, run)
      [] question.question_type = "descriptive" -> grade_descriptive_pending
      [] OTHER -> Raised("ValueError")

\* ------------------------------------------------------------- submit_answer
\* the columns of a grading result that the submissions table has
submission_update_fields ==
    {"status", "is_correct", "marks_obtained", "max_marks", "auto_graded",
     "manually_graded", "execution_output", "execution_error", "execution_time_ms",
     "test_cases_passed", "test_cases_total", "grader_feedback", "memory_used_mb"}

Filtered(result) ==
    [k \in (DOMAIN result) \cap submission_update_fields |-> result[k]]

\* .update(fields).eq('id', id) on one row
UpdateRow(row, fields) ==
    [k \in DOMAIN row |-> IF k \in DOMAIN fields THEN fields[k] ELSE row[k]]

\* submission_dict
submission_dict(sid, q, answer) ==
    [session_id |-> sid, question_id |-> q,
     question_type |-> questions[q].question_type,
     code_answer |-> answer.code_answer,
     mcq_selected_options |-> answer.mcq_selected_options,
     text_answer |-> answer.text_answer,
     max_marks |-> questions[q].marks,
     status |-> "pending",
     execution_error |-> "null", execution_output |-> "null", is_correct |-> "null",
     marks_obtained |-> 0, test_cases_passed |-> 0, test_cases_total |-> 0,
     grader_feedback |-> "null"]

\* the columns an insert of submission_dict leaves to their defaults
SubmissionDefaults ==
    [execution_time_ms |-> Null, auto_graded |-> FALSE, manually_graded |-> FALSE]

InsertedSubmission(sid, q, answer) ==
    [k \in (DOMAIN submission_dict(sid, q, answer)) \cup (DOMAIN SubmissionDefaults) |->
       IF k \in DOMAIN SubmissionDefaults THEN SubmissionDefaults[k]
       ELSE submission_dict(sid, q, answer)[k]]

\* .eq('session_id', id).eq('question_id', q)
SubmissionsOf(sid, q) ==
    {i \in 1..Len(submissions) :
       submissions[i].session_id = sid /\ submissions[i].question_id = q}

\* POST /sessions/{session_token}/submit
CallSubmit(p) ==
    /\ Free(p)
    /\ \E t \in issued, q \in Questions :
         \E a \in Answers(q), r \in Runs(q) :
           req' = [req EXCEPT ![p] = [IdleReq EXCEPT !.op = "submit", !.pc = "vs_read",
                                       !.tok = t, !.q = q, !.answer = a, !.run = r]]
    /\ Spend
    /\ UNCHANGED <<test_questions, questions, grading_logs, now, invitation, test, sessions, submissions, activity_logs, issued>>

\* the question read and the look-up of a submission of this question
SbExisting(p) ==
    /\ At(p, "sb_existing")
    /\ LET existing == SubmissionsOf(req[p].sid, req[p].q) IN
       IF existing # {}
         THEN \E i \in existing : req' = [req EXCEPT ![p].pc = "sb_upsert", ![p].sub = i]
         ELSE req' = [req EXCEPT ![p].pc = "sb_upsert", ![p].sub = 0]
    /\ UNCHANGED <<test_questions, questions, grading_logs, now, invitation, test, sessions, submissions, activity_logs, issued, budget>>

\* the update of the submission found, or the insert of a new one
SbUpsert(p) ==
    /\ At(p, "sb_upsert")
    /\ LET dict == submission_dict(req[p].sid, req[p].q, req[p].answer) IN
       IF req[p].sub # 0
         THEN /\ submissions' = [submissions EXCEPT
                                   ![req[p].sub] = UpdateRow(submissions[req[p].sub], dict)]
              /\ req' = Goto(p, "sb_log")
         ELSE /\ submissions' = Append(submissions,
                                       InsertedSubmission(req[p].sid, req[p].q, req[p].answer))
              /\ req' = [req EXCEPT ![p].pc = "sb_log", ![p].sub = Len(submissions) + 1]
    /\ UNCHANGED <<test_questions, questions, grading_logs, now, invitation, test, sessions, activity_logs, issued, budget>>

\* GradingEngine._log_grading(submission_id, grading_result): the entry it inserts
\* for the submission as it reads it
log_data(id, grading_result) ==
    [submission_id |-> id,
     session_id |-> submissions[id].session_id,
     question_id |-> submissions[id].question_id,
     grading_type |-> grading_result.grading_type,
     marks_before |-> submissions[id].marks_obtained,
     marks_after |-> grading_result.marks_obtained]

\* grade_submission: the grading and the entry of _log_grading; an exception of
\* the grading is answered with a 500 and nothing is logged
SbLog(p) ==
    /\ At(p, "sb_log")
    /\ LET result == grade_submission(questions[req[p].q], req[p].answer, req[p].run) IN
       IF result.status = "raised"
         THEN /\ req' = Finish(p, Err("500"))
              /\ UNCHANGED grading_logs
         ELSE /\ grading_logs' = Append(grading_logs, log_data(req[p].sub, result))
              /\ req' = [req EXCEPT ![p].pc = "sb_grade", ![p].grading = result]
    /\ UNCHANGED <<test_questions, questions, now, invitation, test, sessions, submissions, activity_logs, issued,
                   budget>>

\* the update of the submission with the filtered result of grade_submission
SbGrade(p) ==
    /\ At(p, "sb_grade")
    /\ submissions' = [submissions EXCEPT
                         ![req[p].sub] = UpdateRow(submissions[req[p].sub],
                                                   Filtered(req[p].grading))]
    /\ req' = Goto(p, "score_read")
    /\ UNCHANGED <<test_questions, questions, grading_logs, now, invitation, test, sessions, activity_logs, issued, budget>>

\* the read of the final submission, which is the response
SbFinal(p) ==
    /\ At(p, "sb_final")
    /\ req' = [req EXCEPT ![p].pc = "done", ![p].score = NoScore,
                          ![p].res = Ok(req[p].sid, FALSE)]
    /\ UNCHANGED <<test_questions, questions, grading_logs, now, invitation, test, sessions, submissions, activity_logs, issued, budget>>

\* -------------------------------------------------------------- log_activity
SuspiciousTypes ==
    {"tab_switch", "copy_paste", "copy_attempt", "paste_attempt", "fullscreen_exit",
     "window_blur", "multiple_monitors"}

\* POST /sessions/{session_token}/activity
CallLogActivity(p) ==
    /\ Free(p)
    /\ \E t \in issued, a \in {"tab_switch", "unknown"} :
         req' = [req EXCEPT ![p] = [IdleReq EXCEPT !.op = "log_activity", !.pc = "vs_read",
                                     !.tok = t, !.atype = a]]
    /\ Spend
    /\ UNCHANGED <<test_questions, questions, grading_logs, now, invitation, test, sessions, submissions, activity_logs, issued>>

\* the insert of the log row
LaInsert(p) ==
    /\ At(p, "la_insert")
    /\ activity_logs' = Append(activity_logs,
                               [session_id |-> req[p].sid, activity_type |-> req[p].atype])
    /\ req' = IF req[p].atype \in SuspiciousTypes THEN Goto(p, "la_read")
              ELSE Finish(p, Ok(req[p].sid, FALSE))
    /\ UNCHANGED <<test_questions, questions, grading_logs, now, invitation, test, sessions, submissions, issued, budget>>

\* the read of the session's counter
LaRead(p) ==
    /\ At(p, "la_read")
    /\ req' = [req EXCEPT ![p].pc = "la_write",
                          ![p].sub = sessions[req[p].sid].suspicious_activity_count]
    /\ UNCHANGED <<test_questions, questions, grading_logs, now, invitation, test, sessions, submissions, activity_logs, issued, budget>>

\* the write of the counter read, plus one
LaWrite(p) ==
    /\ At(p, "la_write")
    /\ sessions' = [sessions EXCEPT ![req[p].sid].suspicious_activity_count = req[p].sub + 1]
    /\ req' = Finish(p, Ok(req[p].sid, FALSE))
    /\ UNCHANGED <<test_questions, questions, grading_logs, now, invitation, test, submissions, activity_logs, issued, budget>>

\* ------------------------------------------------------ get_test_questions
\* GET /sessions/{session_token}/questions
CallGetQuestions(p) == \E t \in issued : Begin(p, "get_questions", "vs_read", t)

\* a question handed over as it is stored
stored_q(q) == q

\* sanitized_q: the keys copied from the question; the MCQ options, when there
\* are any, as their id and text
sanitized_q(q) ==
    LET copied == [question_type |-> q.question_type, marks |-> q.marks,
                   is_multiple_correct |-> q.is_multiple_correct]
    IN IF q.mcq_options # {}
         THEN copied @@ [mcq_options |-> q.mcq_options]
         ELSE copied

\* the response for a table of questions, in question_order
get_test_questions(table) == [i \in 1..Len(table) |-> sanitized_q(table[i])]

\* test_questions joined with questions, in question_order
JoinedQuestions == [i \in 1..Len(test_questions) |-> questions[test_questions[i]]]

\* the read of the test's questions, and the response
GqRead(p) ==
    /\ At(p, "gq_read")
    /\ req' = [req EXCEPT ![p].pc = "done",
                          ![p].sanitized = get_test_questions(JoinedQuestions),
                          ![p].res = Ok(req[p].sid, FALSE)]
    /\ UNCHANGED <<test_questions, questions, grading_logs, now, invitation, test, sessions, submissions, activity_logs, issued, budget>>

\* ---------------------------------------------------- manual grading
\* the marks an admin may give, in hundredths: ManualGrading accepts any
\* marks_obtained >= 0, those above a question's marks included
ManualMarks == {0, 250, 600}

\* GradingEngine.grade_descriptive_manually
grade_descriptive_manually(marks_obtained) ==
    [grading_type |-> "manual", marks_obtained |-> marks_obtained,
     manually_graded |-> TRUE, grader_feedback |-> "feedback", status |-> "graded"]

\* POST /sessions/admin/submission/{submission_id}/grade
CallManualGrade(p) ==
    /\ Free(p)
    /\ \E i \in 1..Len(submissions), m \in ManualMarks :
         req' = [req EXCEPT ![p] = [IdleReq EXCEPT !.op = "manual_grade", !.pc = "mg_log",
                                     !.sub = i, !.sid = submissions[i].session_id,
                                     !.grading = grade_descriptive_manually(m)]]
    /\ Spend
    /\ UNCHANGED <<test_questions, questions, grading_logs, now, invitation, test, sessions, submissions, activity_logs, issued>>

\* the entry of _log_grading, written by grade_descriptive_manually before the
\* handler updates the submission
MgLog(p) ==
    /\ At(p, "mg_log")
    /\ grading_logs' = Append(grading_logs, log_data(req[p].sub, req[p].grading))
    /\ req' = Goto(p, "mg_write")
    /\ UNCHANGED <<test_questions, questions, now, invitation, test, sessions, submissions, activity_logs, issued,
                   budget>>

\* the update of the submission with the filtered result and status graded
MgWrite(p) ==
    /\ At(p, "mg_write")
    /\ submissions' = [submissions EXCEPT
                         ![req[p].sub] = UpdateRow(submissions[req[p].sub],
                                                   Filtered(req[p].grading))]
    /\ req' = Goto(p, "score_read")
    /\ UNCHANGED <<test_questions, questions, grading_logs, now, invitation, test, sessions, activity_logs, issued, budget>>

\* GradingEngine.calculate_session_score(session_id), called on its own
CallScore(p) ==
    /\ Free(p)
    /\ \E s \in SessionIds :
         req' = [req EXCEPT ![p] = [IdleReq EXCEPT !.op = "calculate_session_score",
                                     !.pc = "score_read", !.sid = s]]
    /\ Spend
    /\ UNCHANGED <<test_questions, questions, grading_logs, now, invitation, test, sessions, submissions, activity_logs, issued>>

\* ---------------------------------------------------------- specification
\* a request of the session life cycle arrives
Call(p) ==
    \/ CallValidateInvitation(p)
    \/ CallStartSession(p)
    \/ CallValidateSession(p)
    \/ CallComplete(p)
    \/ CallTerminateSession(p)
    \/ CallResetSession(p)

\* a request of the life cycle makes its next call to the store
Work(p) ==
    \/ ViRead(p)
    \/ ViSessions(p)
    \/ SsExisting(p)
    \/ SsInsert(p)
    \/ SsMarkUsed(p)
    \/ VsRead(p)
    \/ VsExpire(p)
    \/ VsTouch(p)
    \/ CsLookup(p)
    \/ CsFresh(p)
    \/ CsWrite(p)
    \/ ScoreRead(p)
    \/ ScoreWrite(p)
    \/ TsWrite(p)
    \/ RsRead(p)
    \/ RsTerminate(p)
    \/ RsClear(p)

\* a submit or log_activity request arrives, or makes its next call to the store
CallAnswer(p) == CallSubmit(p) \/ CallLogActivity(p)

WorkAnswer(p) ==
    \/ SbExisting(p)
    \/ SbUpsert(p)
    \/ SbLog(p)
    \/ SbGrade(p)
    \/ SbFinal(p)
    \/ LaInsert(p)
    \/ LaRead(p)
    \/ LaWrite(p)

\* The life-cycle requests of NumProcs clients, their calls to the store
\* interleaved; MaxCalls requests are made in all.
Next ==
    \/ Tick
    \/ \E p \in Procs : Call(p) \/ Work(p)

Spec == Init /\ [][Next]_vars

\* The life-cycle requests one at a time, any number of them: the whole life of
\* the invitation and its sessions.
SeqNext ==
    \/ Tick
    \/ Call(1) \/ Work(1)

SeqSpec == SeqInit /\ [][SeqNext]_vars

\* Every request of a candidate and an administrator, one at a time; MaxCalls
\* requests are made in all.
AnswerNext ==
    \/ Tick
    \/ Call(1) \/ CallAnswer(1)
    \/ Work(1) \/ WorkAnswer(1)

AnswerSpec == Init /\ [][AnswerNext]_vars

\* The life-cycle requests one at a time, a start_session possibly stopping
\* between its two writes, and no reset_session: what an invitation can come
\* to without an administrator's reset.
CrashNext ==
    \/ Tick
    \/ CallValidateInvitation(1) \/ CallStartSession(1) \/ CallValidateSession(1)
    \/ CallComplete(1) \/ CallTerminateSession(1)
    \/ ViRead(1) \/ ViSessions(1) \/ SsExisting(1) \/ SsInsert(1) \/ SsMarkUsed(1)
    \/ SsCrash(1)
    \/ VsRead(1) \/ VsExpire(1) \/ VsTouch(1)
    \/ CsLookup(1) \/ CsFresh(1) \/ CsWrite(1) \/ ScoreRead(1) \/ ScoreWrite(1)
    \/ TsWrite(1)

CrashSpec == SeqInit /\ [][CrashNext]_vars

\* calculate_session_score on the tables it reads, whatever they hold: a started
\* session, up to MaxRows submissions of it in any status with any marks, and a
\* test whose total was or was not calculated.  The score is recalculated and
\* submissions are graded by hand, one call at a time.
MaxRows == 2

SubmissionStatuses == {"graded", "pending", "executed", "error"}

ScoreInit ==
    /\ questions = QuestionBank
    /\ test_questions = OnTest(questions)
    /\ now = 0
    /\ invitation = [is_used |-> TRUE, expires_at |-> InvitationExpiry]
    /\ test \in {[is_published |-> TRUE, duration_minutes |-> TestDuration,
                  total_marks |-> t] : t \in {0, TestTotalMarks}}
    /\ sessions = <<NewSession(<<>>)>>
    /\ \E n \in 0..MaxRows :
         \E st \in [1..n -> SubmissionStatuses],
            mk \in [1..n -> ManualMarks \cup {QuestionBank[1].marks * Cents}] :
           submissions = [i \in 1..n |->
                            [InsertedSubmission(1, i, NoAnswer) EXCEPT
                               !.status = st[i], !.marks_obtained = mk[i]]]
    /\ activity_logs = <<>>
    /\ grading_logs = <<>>
    /\ issued = {1}
    /\ req = [p \in Procs |-> IdleReq]
    /\ budget = MaxCalls

ScoreNext ==
    \/ CallScore(1) \/ ScoreRead(1) \/ ScoreWrite(1)
    \/ CallManualGrade(1) \/ MgLog(1) \/ MgWrite(1)

ScoreSpec == ScoreInit /\ [][ScoreNext]_vars

\* One candidate's attempt at a test of the first two questions of the bank, a
\* request at a time: start, answers, grading by hand, completion.  The test's
\* total is the one its questions add up to, or the 0 the create endpoint stores.
ExamInit ==
    /\ questions = SubSeq(QuestionBank, 1, 2)
    /\ test_questions = OnTest(questions)
    /\ now = 0
    /\ invitation = [is_used |-> FALSE, expires_at |-> InvitationExpiry]
    /\ test \in {[is_published |-> TRUE, duration_minutes |-> TestDuration,
                  total_marks |-> t] : t \in {0, TestTotalMarks}}
    /\ sessions = <<>>
    /\ submissions = <<>>
    /\ activity_logs = <<>>
    /\ grading_logs = <<>>
    /\ issued = {}
    /\ req = [p \in Procs |-> IdleReq]
    /\ budget = MaxCalls

ExamNext ==
    \/ Tick
    \/ CallStartSession(1) \/ CallSubmit(1) \/ CallManualGrade(1) \/ CallComplete(1)
    \/ ViRead(1) \/ SsExisting(1) \/ SsInsert(1) \/ SsMarkUsed(1)
    \/ VsRead(1) \/ VsExpire(1) \/ VsTouch(1)
    \/ SbExisting(1) \/ SbUpsert(1) \/ SbLog(1) \/ SbGrade(1) \/ SbFinal(1)
    \/ MgLog(1) \/ MgWrite(1)
    \/ CsLookup(1) \/ CsFresh(1) \/ CsWrite(1)
    \/ ScoreRead(1) \/ ScoreWrite(1)

ExamSpec == ExamInit /\ [][ExamNext]_vars

\* Answers to one question of any definition the questions table can hold,
\* submitted in a started session: grade_submission on every question and answer.
MaxOptions == 4

MaxTestCases == 2

GradeCalls == 2

OptionIds == 1..MaxOptions

\* marks of an MCQ question: one that the correct options divide, one that they do not
GradeMarks == {9, 10}

\* an MCQ question as the create and update endpoints can leave it
McqDefs ==
    {[question_type |-> "mcq", marks |-> m, mcq_options |-> OptionIds, correct |-> c,
      is_multiple_correct |-> b, test_cases |-> <<>>] :
       m \in GradeMarks, c \in SUBSET OptionIds, b \in BOOLEAN}

\* test-case lists: marks left out, stored without a value, or given
TestCaseLists ==
    UNION {[1..n -> {[marks |-> x] : x \in {Absent, Null, 3}}] : n \in 0..MaxTestCases}

CodingDefs ==
    {[question_type |-> t, marks |-> 5, mcq_options |-> {}, correct |-> {},
      is_multiple_correct |-> FALSE, test_cases |-> tc] :
       t \in {"python", "javascript"}, tc \in TestCaseLists}

QuestionDefs == McqDefs \cup CodingDefs \cup {QuestionBank[3], QuestionBank[4]}

GradeInit ==
    /\ \E question \in QuestionDefs : questions = <<question>>
    /\ test_questions = OnTest(questions)
    /\ now = 0
    /\ invitation = [is_used |-> TRUE, expires_at |-> InvitationExpiry]
    /\ test = [is_published |-> TRUE, duration_minutes |-> TestDuration,
               total_marks |-> TestTotalMarks]
    /\ sessions = <<NewSession(<<>>)>>
    /\ submissions = <<>>
    /\ activity_logs = <<>>
    /\ grading_logs = <<>>
    /\ issued = {1}
    /\ req = [p \in Procs |-> IdleReq]
    /\ budget = GradeCalls

GradeNext ==
    \/ CallSubmit(1)
    \/ VsRead(1) \/ VsTouch(1)
    \/ SbExisting(1) \/ SbUpsert(1) \/ SbLog(1) \/ SbGrade(1)
    \/ ScoreRead(1) \/ ScoreWrite(1) \/ SbFinal(1)

GradeSpec == GradeInit /\ [][GradeNext]_vars

\* An answer to an SQL question with any expected result, the query returning
\* any rows: _compare_sql_results on every pair of row lists.
MaxSqlRows == 2

SqlCalls == 1

\* rows of one column a or b, and two rows of both columns
SqlRows ==
    {[a |-> v] : v \in SqlValues} \cup {[b |-> v] : v \in SqlValues}
      \cup {[a |-> "int 5", b |-> "str A"], [a |-> "str 5", b |-> "str a"]}

RowLists == UNION {[1..n -> SqlRows] : n \in 0..MaxSqlRows}

SqlInit ==
    /\ \E expected \in RowLists :
         questions = <<[QuestionBank[3] EXCEPT !.expected_query_result = expected,
                                               !.query_results = RowLists]>>
    /\ test_questions = OnTest(questions)
    /\ now = 0
    /\ invitation = [is_used |-> TRUE, expires_at |-> InvitationExpiry]
    /\ test = [is_published |-> TRUE, duration_minutes |-> TestDuration,
               total_marks |-> TestTotalMarks]
    /\ sessions = <<NewSession(<<>>)>>
    /\ submissions = <<>>
    /\ activity_logs = <<>>
    /\ grading_logs = <<>>
    /\ issued = {1}
    /\ req = [p \in Procs |-> IdleReq]
    /\ budget = SqlCalls

SqlNext ==
    \/ CallSubmit(1)
    \/ VsRead(1) \/ VsTouch(1)
    \/ SbExisting(1) \/ SbUpsert(1) \/ SbLog(1) \/ SbGrade(1)
    \/ ScoreRead(1) \/ ScoreWrite(1) \/ SbFinal(1)

SqlSpec == SqlInit /\ [][SqlNext]_vars

\* The question list fetched in a started session, for every table of up to
\* MaxListed questions whose answers, solutions and test cases are any.
MaxListed == 2

ListCalls == 1

\* the fields of a question that tell how it is graded
GradingFieldsOfQuestion ==
    {"correct", "test_cases", "expected_query_result", "ideal_answer", "grading_rubric"}

ListedDefs ==
    {[question_type |-> t, marks |-> 5, mcq_options |-> o, correct |-> c,
      is_multiple_correct |-> b, test_cases |-> tc, expected_query_result |-> e,
      ideal_answer |-> a, grading_rubric |-> a] :
       t \in {"mcq"}, o \in {{1, 2}}, c \in SUBSET {1, 2}, b \in BOOLEAN,
       tc \in {<<>>}, e \in {<<>>}, a \in {"null"}}
    \cup
    {[question_type |-> t, marks |-> 5, mcq_options |-> {}, correct |-> {},
      is_multiple_correct |-> FALSE, test_cases |-> tc, expected_query_result |-> e,
      ideal_answer |-> a, grading_rubric |-> a] :
       t \in {"python", "sql", "descriptive"},
       tc \in {<<>>, <<[marks |-> Null]>>},
       e \in {<<>>, <<[a |-> "int 5"]>>}, a \in {"null", "text"}}

QuestionTables == UNION {[1..n -> ListedDefs] : n \in 1..MaxListed}

ListInit ==
    /\ questions \in QuestionTables
    /\ test_questions = OnTest(questions)
    /\ now = 0
    /\ invitation = [is_used |-> TRUE, expires_at |-> InvitationExpiry]
    /\ test = [is_published |-> TRUE, duration_minutes |-> TestDuration,
               total_marks |-> TestTotalMarks]
    /\ sessions = <<NewSession(<<>>)>>
    /\ submissions = <<>>
    /\ activity_logs = <<>>
    /\ grading_logs = <<>>
    /\ issued = {1}
    /\ req = [p \in Procs |-> IdleReq]
    /\ budget = ListCalls

ListNext ==
    \/ CallGetQuestions(1)
    \/ VsRead(1) \/ VsTouch(1)
    \/ GqRead(1)

ListSpec == ListInit /\ [][ListNext]_vars

\* The requests that carry the token of a started session, and the
\* administrator's terminate and reset, one at a time: what the token still
\* opens once its session is completed, expired or terminated.
TokenCalls == 3

TokenInit ==
    /\ questions = SubSeq(QuestionBank, 1, 2)
    /\ test_questions = OnTest(questions)
    /\ now = 0
    /\ invitation = [is_used |-> TRUE, expires_at |-> InvitationExpiry]
    /\ test = [is_published |-> TRUE, duration_minutes |-> TestDuration,
               total_marks |-> TestTotalMarks]
    /\ sessions = <<NewSession(<<>>)>>
    /\ submissions = <<>>
    /\ activity_logs = <<>>
    /\ grading_logs = <<>>
    /\ issued = {1}
    /\ req = [p \in Procs |-> IdleReq]
    /\ budget = TokenCalls

TokenNext ==
    \/ Tick
    \/ CallValidateSession(1) \/ CallGetQuestions(1) \/ CallSubmit(1)
    \/ CallLogActivity(1) \/ CallComplete(1)
    \/ CallTerminateSession(1) \/ CallResetSession(1)
    \/ VsRead(1) \/ VsExpire(1) \/ VsTouch(1)
    \/ GqRead(1)
    \/ SbExisting(1) \/ SbUpsert(1) \/ SbLog(1) \/ SbGrade(1) \/ SbFinal(1)
    \/ LaInsert(1) \/ LaRead(1) \/ LaWrite(1)
    \/ CsLookup(1) \/ CsFresh(1) \/ CsWrite(1)
    \/ ScoreRead(1) \/ ScoreWrite(1)
    \/ TsWrite(1)
    \/ RsRead(1) \/ RsTerminate(1) \/ RsClear(1)

TokenSpec == TokenInit /\ [][TokenNext]_vars

\* Two clients answering the first two questions of a started session and
\* completing it at the same time (a double click, a submit racing an auto-save
\* or the final submit), their calls to the store interleaved; RaceCalls
\* requests are made in all.
RaceCalls == 2

RaceInit ==
    /\ questions = SubSeq(QuestionBank, 1, 2)
    /\ test_questions = OnTest(questions)
    /\ now = 0
    /\ invitation = [is_used |-> TRUE, expires_at |-> InvitationExpiry]
    /\ test = [is_published |-> TRUE, duration_minutes |-> TestDuration,
               total_marks |-> TestTotalMarks]
    /\ sessions = <<NewSession(<<>>)>>
    /\ submissions = <<>>
    /\ activity_logs = <<>>
    /\ grading_logs = <<>>
    /\ issued = {1}
    /\ req = [p \in Procs |-> IdleReq]
    /\ budget = RaceCalls

RaceNext ==
    \E p \in Procs :
      \/ CallSubmit(p) \/ CallComplete(p)
      \/ VsRead(p) \/ VsTouch(p)
      \/ SbExisting(p) \/ SbUpsert(p) \/ SbLog(p) \/ SbGrade(p)
      \/ CsLookup(p) \/ CsFresh(p) \/ CsWrite(p)
      \/ ScoreRead(p) \/ ScoreWrite(p) \/ SbFinal(p)

RaceSpec == RaceInit /\ [][RaceNext]_vars

\* Two clients reporting proctoring events of a started session at the same
\* time, their calls to the store interleaved; ActivityCalls reports are made in
\* all.
ActivityCalls == 3

ActivityInit ==
    /\ questions = SubSeq(QuestionBank, 1, 1)
    /\ test_questions = OnTest(questions)
    /\ now = 0
    /\ invitation = [is_used |-> TRUE, expires_at |-> InvitationExpiry]
    /\ test = [is_published |-> TRUE, duration_minutes |-> TestDuration,
               total_marks |-> TestTotalMarks]
    /\ sessions = <<NewSession(<<>>)>>
    /\ submissions = <<>>
    /\ activity_logs = <<>>
    /\ grading_logs = <<>>
    /\ issued = {1}
    /\ req = [p \in Procs |-> IdleReq]
    /\ budget = ActivityCalls

ActivityNext ==
    \E p \in Procs :
      \/ CallLogActivity(p)
      \/ VsRead(p) \/ VsTouch(p)
      \/ LaInsert(p) \/ LaRead(p) \/ LaWrite(p)

ActivitySpec == ActivityInit /\ [][ActivityNext]_vars

\* A candidate of a test made of the first question of the bank only, while the
\* questions table also holds a question of another test; the session is
\* started, and BankCalls requests answer questions or list the test's.
BankCalls == 2

BankInit ==
    /\ questions = SubSeq(QuestionBank, 1, 2)
    /\ test_questions = <<1>>
    /\ now = 0
    /\ invitation = [is_used |-> TRUE, expires_at |-> InvitationExpiry]
    /\ test = [is_published |-> TRUE, duration_minutes |-> TestDuration,
               total_marks |-> QuestionBank[1].marks]
    /\ sessions = <<NewSession(<<>>)>>
    /\ submissions = <<>>
    /\ activity_logs = <<>>
    /\ grading_logs = <<>>
    /\ issued = {1}
    /\ req = [p \in Procs |-> IdleReq]
    /\ budget = BankCalls

BankNext ==
    \E p \in Procs :
      \/ CallSubmit(p) \/ CallGetQuestions(p)
      \/ VsRead(p) \/ VsTouch(p)
      \/ SbExisting(p) \/ SbUpsert(p) \/ SbLog(p) \/ SbGrade(p)
      \/ ScoreRead(p) \/ ScoreWrite(p) \/ SbFinal(p)
      \/ GqRead(p)

BankSpec == BankInit /\ [][BankNext]_vars

\* ----------------------------------------------------------------- claims
\* request p takes the step
Steps(p) == req'[p] # req[p]

\* request p takes its last step and answers
Returns(p) == req[p].pc # "done" /\ req'[p].pc = "done"

Done(p, op) == req[p].op = op /\ req[p].pc = "done"

\* C1: concurrent start_session calls on an unused, unexpired invitation of a
\* published test leave exactly one session row, which is active, and every
\* caller receives success with that row.
C1_OneRowForConcurrentStarts ==
    ( /\ budget = MaxCalls - NumProcs
      /\ \A p \in Procs : Done(p, "start_session")
      /\ now = 0
      /\ test.is_published )
    => /\ Len(sessions) = 1
       /\ sessions[1].status = "active"
       /\ \A p \in Procs : req[p].res.ok /\ req[p].res.sid = 1

\* C2: at most one session row of the invitation has a status other than
\* terminated, in every reachable state.
C2_AtMostOneNonTerminated == Cardinality(NonTerminated) <= 1

\* the grading fields of a submissions row
GradingFields ==
    {"status", "is_correct", "marks_obtained", "execution_output", "execution_error",
     "execution_time_ms", "test_cases_passed", "test_cases_total", "auto_graded",
     "grader_feedback"}

\* the row that submitting this answer alone leaves
GradedAlone(sid, q, answer, run) ==
    UpdateRow(InsertedSubmission(sid, q, answer),
              Filtered(grade_submission(questions[q], answer, run)))

\* C3: after a submit has answered, the (session, question) pair has exactly one
\* submissions row and every grading field of it has the value that grading the
\* answer just submitted alone produces, whatever was submitted before.
C3_ResubmitLeavesOnlySecondGrading ==
    \A p \in Procs :
      (Done(p, "submit") /\ req[p].res.ok) =>
        /\ Cardinality(SubmissionsOf(req[p].sid, req[p].q)) = 1
        /\ \A k \in GradingFields :
             submissions[req[p].sub][k] =
               GradedAlone(req[p].sid, req[p].q, req[p].answer, req[p].run)[k]

\* C4: a validate_session call that reads the session after expires_at returns
\* valid=false, and once the row is expired a later call performs no further
\* write to it.
C4_ExpiredWrittenOnce ==
    [][\A p \in Procs :
         (req[p].op = "validate_session" /\ Steps(p)) =>
           /\ (At(p, "vs_read") /\ Past(sessions[IdOfToken(req[p].tok)].expires_at)) =>
                \/ req'[p].pc = "vs_expire"
                \/ req'[p].pc = "done" /\ ~req'[p].res.ok
           /\ At(p, "vs_expire") => req'[p].pc = "done" /\ ~req'[p].res.ok
           /\ sessions[IdOfToken(req[p].tok)].status = "expired" => sessions' = sessions]_vars

\* C5: a complete call on a session that is already completed returns the
\* current row, without an error and without any write to the session rows.
C5_CompleteIsIdempotent ==
    [][\A p \in Procs :
         (At(p, "cs_lookup") /\ Steps(p)
          /\ sessions[IdOfToken(req[p].tok)].status = "completed") =>
           /\ sessions' = sessions
           /\ req'[p].pc = "done"
           /\ req'[p].res.ok
           /\ req'[p].res.sid = IdOfToken(req[p].tok)]_vars

\* a complete call answered with the completed row its own look-up found
C5_Witness ==
    \E p \in Procs :
      /\ Done(p, "complete")
      /\ req[p].res.ok
      /\ req[p].res.ret = "session_row"
      /\ sessions[req[p].res.sid].status = "completed"

\* C6: of two concurrent complete calls on one active, unexpired session, the
\* second writes neither status nor ended_at again: a session that is
\* completed is not written by a complete call.
C6_CompletedOnce ==
    [][\A p \in Procs :
         (req[p].op = "complete" /\ Steps(p)) =>
           \A s \in SessionIds :
             (sessions[s].status = "completed" /\ ~Past(sessions[s].expires_at)) =>
               /\ sessions'[s].status = sessions[s].status
               /\ sessions'[s].ended_at = sessions[s].ended_at]_vars

\* a session started and neither completed, terminated nor reset since
Untouched(s) ==
    /\ sessions[s].session_token \in issued
    /\ ~sessions[s].is_completed
    /\ sessions[s].status # "terminated"
    /\ sessions[s].admin_comments = "none"

\* C7: while the invitation is used and its started session is neither
\* completed, terminated nor reset, a validate_invitation or start_session
\* answers with that session, resumed, and no session row is added.
C7_ResumeSameSession ==
    [][\A p \in Procs :
         (req[p].op \in {"validate_invitation", "start_session"} /\ Returns(p)
          /\ invitation.is_used /\ At(p, "vi_sessions")) =>
           \A s \in SessionIds :
             Untouched(s) =>
               /\ req'[p].res.ok
               /\ req'[p].res.resumed
               /\ req'[p].res.sid = s
               /\ Len(sessions') = Len(sessions)]_vars

\* the rows of the invitation other than the one request p has inserted
Old(p) == SessionIds \ {req[p].sid}

\* C8: the reset of an invitation whose sessions are completed leaves them
\* terminated, and the start_session that follows on the unexpired invitation
\* of a published test succeeds with resumed=false and a new row with a new
\* token, the old rows still terminated.
C8_StartAfterReset ==
    [][\A p \in Procs :
         /\ ( /\ req[p].op = "reset_session" /\ Returns(p)
              /\ sessions # <<>>
              /\ \A s \in SessionIds : sessions[s].is_completed )
            => \A s \in SessionIds : sessions'[s].status = "terminated"
         /\ ( /\ req[p].op = "start_session" /\ Returns(p)
              /\ ~invitation.is_used
              /\ ~Past(invitation.expires_at) /\ test.is_published
              /\ Old(p) # {}
              /\ \A s \in Old(p) : sessions[s].is_completed /\ sessions[s].status = "terminated" )
            => /\ req'[p].res.ok
               /\ ~req'[p].res.resumed
               /\ req'[p].res.sid \notin Old(p)
               /\ \A s \in Old(p) :
                    /\ sessions'[s].status = "terminated"
                    /\ sessions'[s].session_token
                         # sessions'[req'[p].res.sid].session_token]_vars

\* the invitation has one session, it is completed, and no reset has
\* terminated it
CompletedNotReset == Len(sessions) = 1 /\ sessions[1].status = "completed"

\* C9: once the session of the invitation is completed and until a reset,
\* validate_invitation and start_session fail and no session row is inserted.
C9_OneTimeUse ==
    [][CompletedNotReset =>
         /\ Len(sessions') = Len(sessions)
         /\ \A p \in Procs :
              (req[p].op \in {"validate_invitation", "start_session"} /\ Returns(p))
                => ~req'[p].res.ok]_vars

\* C10: a step that takes is_used from true to false is the invitation
\* update of reset_session.
C10_OnlyResetClearsIsUsed ==
    [][(invitation.is_used /\ ~invitation'.is_used) =>
         \E p \in Procs : req[p].op = "reset_session" /\ At(p, "rs_clear") /\ Steps(p)]_vars

\* the flag still set after a start, a submit, a complete and a
\* validate_invitation
C10_Witness ==
    /\ invitation.is_used
    /\ Len(submissions) > 0
    /\ \E s \in SessionIds : sessions[s].status = "completed"
    /\ Done(1, "validate_invitation")

\* C11: a session row whose status is terminated keeps that status: no step of
\* any request changes it.
C11_TerminatedIsFinal ==
    [][\A s \in SessionIds :
         sessions[s].status = "terminated" => sessions'[s].status = "terminated"]_vars

\* a session row inserted by a start_session that stopped before its answer
Orphan(s) ==
    /\ sessions[s].session_token \notin issued
    /\ sessions[s].status # "terminated"
    /\ ~sessions[s].is_completed

\* C12: after a start_session stopped between its two writes the next
\* start_session resumes the inserted session, and without a reset the
\* invitation never starts a second session.
C12_NoSecondSessionAfterCrash ==
    [][/\ \A p \in Procs :
            ( /\ req[p].op = "start_session" /\ Returns(p)
              /\ ~invitation.is_used /\ ~Past(invitation.expires_at) )
            => \A s \in Old(p) :
                 Orphan(s) =>
                   /\ req'[p].res.ok
                   /\ req'[p].res.resumed
                   /\ req'[p].res.sid = s
       /\ Len(sessions') <= 1]_vars

\* the rows of submissions that belong to session id
RowsOf(id) == {i \in 1..Len(submissions) : submissions[i].session_id = id}

\* the sum of marks_obtained over a set of rows
RECURSIVE MarksOver(_)
MarksOver(S) ==
    IF S = {} THEN 0
    ELSE LET i == CHOOSE j \in S : TRUE IN submissions[i].marks_obtained + MarksOver(S \ {i})

\* the sum of max_marks over a set of rows
RECURSIVE MaxMarksOver(_)
MaxMarksOver(S) ==
    IF S = {} THEN 0
    ELSE LET i == CHOOSE j \in S : TRUE IN submissions[i].max_marks + MaxMarksOver(S \ {i})

\* what the claim says calculate_session_score yields for session id
ExpectedTotal(id) ==
    IF test.total_marks # 0 THEN test.total_marks ELSE MaxMarksOver(RowsOf(id))

ExpectedObtained(id) ==
    MarksOver({i \in RowsOf(id) : submissions[i].status = "graded"})

\* C15: calculate_session_score counts the marks of graded submissions only,
\* takes the total from the test and from the submissions' max_marks only when
\* the test's total is zero, and yields percentage 0 when the total is zero:
\* when it has returned, the session row and the returned score hold these.
C15_ScoreCountsGradedOnly ==
    \A p \in Procs :
      Done(p, "calculate_session_score") =>
        LET id == req[p].sid
            row == sessions[id]
        IN /\ row.total_marks_obtained = ExpectedObtained(id)
           /\ row.total_marks = ExpectedTotal(id)
           /\ ExpectedTotal(id) = 0 => row.percentage_score = 0
           /\ ExpectedTotal(id) > 0 =>
                row.percentage_score
                  = RoundDiv(ExpectedObtained(id) * 100, ExpectedTotal(id))
           /\ req[p].score = [total_marks_obtained |-> row.total_marks_obtained,
                              total_marks |-> row.total_marks,
                              percentage_score |-> row.percentage_score]

\* a score returned where a submission that is not graded carries marks, the
\* test's total is zero and the fallback total is positive
C15_Witness ==
    /\ Done(1, "calculate_session_score")
    /\ test.total_marks = 0
    /\ sessions[1].total_marks > 0
    /\ sessions[1].total_marks_obtained > 0
    /\ \E i \in RowsOf(1) : submissions[i].status # "graded" /\ submissions[i].marks_obtained > 0

\* the score a session row holds
RowScore(id) ==
    [total_marks_obtained |-> sessions[id].total_marks_obtained,
     total_marks |-> sessions[id].total_marks,
     percentage_score |-> sessions[id].percentage_score]

\* C14: calculate_session_score is idempotent: once a call has returned, and
\* until a submission changes, the calculation made again yields the values the
\* call returned, and they are the values the session row holds.
C14_ScoreIsIdempotent ==
    \A p \in Procs :
      Done(p, "calculate_session_score") =>
        /\ Score(req[p].sid) = req[p].score
        /\ RowScore(req[p].sid) = req[p].score

\* a second call in a row has returned a score that is not zero
C14_Witness ==
    /\ Done(1, "calculate_session_score")
    /\ budget <= MaxCalls - 2
    /\ \A i \in 1..Len(submissions) : ~submissions[i].manually_graded
    /\ req[1].score.total_marks_obtained > 0
    /\ req[1].score.percentage_score > 0

\* no request is in the middle of its handler
Quiet == \A p \in Procs : Free(p)

\* the percentage of obtained marks (in hundredths) in a total, as the row keeps it
Percentage(obtained, total) == IF total > 0 THEN RoundDiv(obtained * 100, total) ELSE 0

\* C13 as stated: a completed session's row holds the sum of the marks of its
\* graded submissions, the total_marks of the test, and their percentage.
C13_CompletedScoreOfTestTotal ==
    \A s \in SessionIds :
      (Quiet /\ sessions[s].is_completed) =>
        /\ sessions[s].total_marks_obtained = ExpectedObtained(s)
        /\ sessions[s].total_marks = test.total_marks
        /\ sessions[s].percentage_score
             = Percentage(ExpectedObtained(s), test.total_marks)

\* C13: once a session is completed, after any sequence of submissions, its row
\* holds the sum of the marks of its graded submissions, as total_marks the
\* test's total_marks or, when that is zero, the sum of its submissions'
\* max_marks, and the percentage of the first in the second to two decimals.
C13_CompletedScore ==
    \A s \in SessionIds :
      (Quiet /\ sessions[s].is_completed) =>
        /\ sessions[s].total_marks_obtained = ExpectedObtained(s)
        /\ sessions[s].total_marks = ExpectedTotal(s)
        /\ sessions[s].percentage_score
             = Percentage(ExpectedObtained(s), ExpectedTotal(s))

\* the two 5-mark questions answered, the MCQ one correctly (5/5) and the coding
\* one with code that fails its test cases (0/5), and the session completed
\* with 5 marks of 10, 50 per cent
C13_Witness ==
    /\ Done(1, "complete")
    /\ sessions[1].is_completed
    /\ \E i, j \in RowsOf(1) :
         /\ submissions[i].question_type = "mcq" /\ submissions[i].is_correct = "true"
         /\ submissions[i].marks_obtained = 5 * Cents /\ submissions[i].max_marks = 5
         /\ submissions[j].question_type = "python" /\ submissions[j].is_correct = "false"
         /\ submissions[j].test_cases_passed = 0
         /\ submissions[j].marks_obtained = 0 /\ submissions[j].max_marks = 5
    /\ sessions[1].total_marks_obtained = 5 * Cents
    /\ sessions[1].total_marks = 10
    /\ sessions[1].percentage_score = 50 * Cents

\* the submissions rows of MCQ questions in the given mode, once no request is
\* in its handler
McqRows(multiple) ==
    {i \in 1..Len(submissions) :
       /\ Quiet
       /\ submissions[i].question_type = "mcq"
       /\ questions[submissions[i].question_id].is_multiple_correct = multiple}

\* C16: single-correct MCQ: whatever the options flagged correct and whatever
\* the selection, the answer is given max_marks and is_correct true when the
\* selected set is the set of correct options, and 0 and false otherwise.
C16_SingleCorrectAllOrNothing ==
    \A i \in McqRows(FALSE) :
      LET row == submissions[i]
          question == questions[row.question_id]
      IN /\ row.status = "graded"
         /\ row.max_marks = question.marks
         /\ IF row.mcq_selected_options = question.correct
              THEN row.marks_obtained = question.marks * Cents /\ row.is_correct = "true"
              ELSE row.marks_obtained = 0 /\ row.is_correct = "false"

\* a strict subset of the correct options was selected, and no marks given
C16_Witness ==
    \E i \in McqRows(FALSE) :
      /\ submissions[i].mcq_selected_options # {}
      /\ submissions[i].mcq_selected_options \subseteq questions[1].correct
      /\ submissions[i].mcq_selected_options # questions[1].correct
      /\ submissions[i].marks_obtained = 0
      /\ submissions[i].is_correct = "false"
      /\ budget = 0

\* C17: multiple-correct MCQ: for every question and selection the answer is
\* given max(0, (marks / total_correct) * (correctly selected - incorrectly
\* selected)) marks, to two decimals, which lie between 0 and max_marks, and
\* is_correct is true only when the selected set is the set of correct options.
C17_MultipleCorrectPartialMarks ==
    \A i \in McqRows(TRUE) :
      LET row == submissions[i]
          question == questions[row.question_id]
          selected == row.mcq_selected_options
          total_correct == Cardinality(question.correct)
          net == Cardinality(selected \cap question.correct)
                   - Cardinality(selected \ question.correct)
          exact == net * question.marks * Cents
      IN /\ row.status = "graded"
         /\ IF net <= 0 THEN row.marks_obtained = 0
            ELSE /\ 2 * (row.marks_obtained * total_correct - exact) <= total_correct
                 /\ 2 * (exact - row.marks_obtained * total_correct) <= total_correct
         /\ row.marks_obtained >= 0
         /\ row.marks_obtained <= question.marks * Cents
         /\ row.is_correct = "true" => selected = question.correct

\* C20: grading never propagates a fault: for every question definition and
\* every answer a submit ends with success, and the submission holds the status
\* and the marks of the result grade_submission returned.
C20_GradingNeverFaults ==
    \A p \in Procs :
      Done(p, "submit") =>
        /\ req[p].res.ok
        /\ "marks_obtained" \in DOMAIN req[p].grading
        /\ \E i \in SubmissionsOf(req[p].res.sid, req[p].q) :
             /\ submissions[i].status = req[p].grading.status
             /\ submissions[i].marks_obtained = req[p].grading.marks_obtained

\* a row as the claim takes it: its (column name, lower-cased string) pairs
PairsOf(row) == {<<k, LowerStr(row[k])>> : k \in DOMAIN row}

\* the two lists hold the same rows, each as many times: some one-to-one
\* matching of their positions pairs equal rows
SameMultiset(actual, expected) ==
    /\ Len(actual) = Len(expected)
    /\ \E f \in [1..Len(actual) -> 1..Len(expected)] :
         /\ \A i, j \in 1..Len(actual) : i # j => f[i] # f[j]
         /\ \A i \in 1..Len(actual) : PairsOf(actual[i]) = PairsOf(expected[f[i]])

\* the submit of code for an SQL question has answered, the query having run
SqlGraded(p) ==
    /\ Done(p, "submit")
    /\ questions[req[p].q].question_type = "sql"
    /\ ~NoCode(req[p].answer.code_answer)
    /\ req[p].run.success

\* C18: an SQL answer is correct exactly when the rows returned and the rows
\* expected are as many and the same multiset, a row being its set of (column
\* name, lower-cased string of the value) pairs; it is given max_marks when
\* correct and 0 otherwise.
C18_SqlComparison ==
    \A p \in Procs :
      SqlGraded(p) =>
        LET question == questions[req[p].q]
            correct == SameMultiset(req[p].run.output, question.expected_query_result)
        IN \A i \in SubmissionsOf(req[p].res.sid, req[p].q) :
             /\ submissions[i].is_correct = Bool(correct)
             /\ submissions[i].marks_obtained = IF correct THEN question.marks * Cents ELSE 0

\* the expected rows returned in another order and with 5 as "5": correct
C18_Witness ==
    /\ SqlGraded(1)
    /\ questions[1].expected_query_result = <<[a |-> "int 5"], [b |-> "str A"]>>
    /\ req[1].run.output = <<[b |-> "str A"], [a |-> "str 5"]>>
    /\ \E i \in SubmissionsOf(1, 1) :
         submissions[i].is_correct = "true" /\ submissions[i].marks_obtained = 3 * Cents

\* the fields of a question that do not tell how it is graded
PublicPart(q) == [k \in DOMAIN q \ GradingFieldsOfQuestion |-> q[k]]

\* two tables that differ at most in grading fields
SamePublic(t1, t2) ==
    /\ Len(t1) = Len(t2)
    /\ \A i \in 1..Len(t1) : PublicPart(t1[i]) = PublicPart(t2[i])

\* C19: the question list returned to a candidate is the one every table that
\* differs from the stored one only in correct flags, ideal answers, rubrics,
\* expected results or test cases gives, and no returned question carries any
\* of those fields.
C19_QuestionListHidesGrading ==
    \A p \in Procs :
      (Done(p, "get_questions") /\ req[p].res.ok) =>
        /\ \A other \in QuestionTables :
             SamePublic(other, questions) => get_test_questions(other) = req[p].sanitized
        /\ \A i \in 1..Len(req[p].sanitized) :
             (DOMAIN req[p].sanitized[i]) \cap GradingFieldsOfQuestion = {}

\* a list of two questions was returned, an MCQ question with a correct option
\* and a question with an expected result, an ideal answer and a test case
C19_Witness ==
    /\ Done(1, "get_questions")
    /\ req[1].res.ok
    /\ Len(req[1].sanitized) = 2
    /\ questions[1].question_type = "mcq"
    /\ questions[1].correct = {2}
    /\ questions[2].test_cases # <<>>
    /\ questions[2].expected_query_result # <<>>
    /\ questions[2].ideal_answer = "text"

\* the entries of grading_logs for a submission, as indices
LogsOf(i) == {k \in 1..Len(grading_logs) : grading_logs[k].submission_id = i}

\* the marks a submission held from the grading before entry k: the marks_after
\* of its previous entry, 0 when entry k is its first
MarksHeldBefore(k) ==
    LET earlier == {j \in LogsOf(grading_logs[k].submission_id) : j < k} IN
    IF earlier = {} THEN 0
    ELSE grading_logs[CHOOSE j \in earlier : \A l \in earlier : l <= j].marks_after

\* a request is between its grading and the end of its update of submission i
Grading(i) == \E p \in Procs : req[p].sub = i /\ req[p].pc \in {"sb_log", "sb_grade", "mg_log", "mg_write"}

\* C21: every grading call appends one grading_logs entry for the submission,
\* whose marks_before is the marks the submission held from its previous grading
\* (0 for a first answer) and whose marks_after is the marks of the new result;
\* the marks of a graded submission are the marks_after of its last entry.
C21_GradingIsLogged ==
    /\ \A k \in 1..Len(grading_logs) : grading_logs[k].marks_before = MarksHeldBefore(k)
    /\ \A i \in 1..Len(submissions) :
         (submissions[i].marks_obtained # 0 /\ ~Grading(i)) =>
           /\ LogsOf(i) # {}
           /\ grading_logs[CHOOSE k \in LogsOf(i) : \A l \in LogsOf(i) : l <= k].marks_after
                = submissions[i].marks_obtained

\* the rows of the invitation, its sessions and their submissions
Rows == <<invitation, sessions, submissions>>

\* request p of validate_invitation or start_session makes a step in which it
\* returns the failure msg
FailsWith(p, msg) ==
    /\ req'[p].pc = "done"
    /\ ~req'[p].res.ok
    /\ req'[p].res.error = msg
    /\ req'[p].res.sid = NoSession

\* request p, validating the invitation by its token, makes its call at label
ValidationStep(p, label) ==
    /\ req[p].op \in {"validate_invitation", "start_session"}
    /\ req[p].tok = InvitationToken
    /\ req[p].pc = label
    /\ req'[p] # req[p]

\* C22: validate_invitation and start_session fail with a distinct reason and
\* change no state: a used invitation with no non-terminated, non-completed
\* session is already used; an unused one past its expiry is expired; an unused,
\* unexpired one whose test is not published is not published.  No session row is
\* inserted and the invitation row is unchanged.
C22_InvitationRefused ==
    [][\A p \in Procs :
         /\ (ValidationStep(p, "vi_sessions") /\ invitation.is_used
               /\ ActiveOf(NonTerminated) = {})
              => (FailsWith(p, "This invitation has already been used.") /\ Rows' = Rows)
         /\ (ValidationStep(p, "vi_read") /\ ~invitation.is_used
               /\ now > invitation.expires_at)
              => (FailsWith(p, "This invitation has expired.") /\ Rows' = Rows)
         /\ (ValidationStep(p, "vi_read") /\ ~invitation.is_used
               /\ ~(now > invitation.expires_at) /\ ~test.is_published)
              => (FailsWith(p, "This test has not been published yet.") /\ Rows' = Rows)
         /\ (req[p].op \in {"validate_invitation", "start_session"}
               /\ req[p].pc \in {"vi_read", "vi_sessions"})
              => Rows' = Rows \/ req'[p] = req[p]]_vars

\* a start_session was refused on a used invitation whose session is completed,
\* and nothing was inserted
C22_Witness ==
    \E p \in Procs : /\ req[p].op = "start_session" /\ req[p].pc = "done"
                     /\ req[p].res.error = "This invitation has already been used."
                     /\ invitation.is_used
                     /\ Len(sessions) = 1 /\ sessions[1].is_completed

\* the requests that validate_session guards before they read or write anything
TokenOps == {"submit", "get_questions", "log_activity"}

\* everything a request can write
Stored == <<invitation, sessions, submissions, activity_logs, grading_logs>>

\* C23: validate_session on a token whose session has is_completed = true fails
\* with already-completed, and a submit, fetch-questions or log-activity request
\* made with that token is rejected without creating or modifying any submission,
\* activity log or session field; on a valid session validate_session changes
\* only last_activity_at.
C23_CompletedTokenRejected ==
    [][\A p \in Procs :
         /\ (Steps(p) /\ req[p].pc = "vs_read"
               /\ req[p].op \in TokenOps \cup {"validate_session"}
               /\ sessions[IdOfToken(req[p].tok)].is_completed)
              => /\ req'[p].pc = "done"
                 /\ ~req'[p].res.ok
                 /\ req'[p].res.error = "Test already completed"
                 /\ req'[p].sanitized = <<>>
                 /\ Stored' = Stored
         /\ (Steps(p) /\ req[p].op = "validate_session")
              => LET id == IdOfToken(req[p].tok) IN
                 /\ <<invitation, submissions, activity_logs, grading_logs>>'
                      = <<invitation, submissions, activity_logs, grading_logs>>
                 /\ (~sessions[id].is_completed /\ ~(now > sessions[id].expires_at))
                      => /\ sessions' = [sessions EXCEPT ![id].last_activity_at =
                                                           sessions'[id].last_activity_at]
                         /\ req'[p].pc = "done" => req'[p].res.ok]_vars

\* a submit made with the token of a completed session was rejected, and a
\* validate_session on the active session before it was accepted
C23_Witness ==
    /\ Done(1, "submit")
    /\ req[1].res.error = "Test already completed"
    /\ sessions[1].is_completed
    /\ sessions[1].last_activity_at # Null
    /\ submissions = <<>>

\* C24: validate_invitation is read-only: for every token and every state of the
\* invitation (unknown, unused, used with a live session, used without one,
\* expired, unpublished) it leaves all invitation, session and submission rows
\* unchanged, so that any number of calls between two other operations does not
\* change their outcome.
C24_ValidateInvitationReadOnly ==
    [][\A p \in Procs :
         (req[p].op = "validate_invitation" \/ req'[p].op = "validate_invitation")
           => \/ req'[p] = req[p]
              \/ <<Stored, test, questions>>' = <<Stored, test, questions>>]_vars

\* validate_invitation has answered for an unknown token and, for the
\* invitation's token, that its only session is completed
C24_Witness ==
    /\ Done(1, "validate_invitation") /\ req[1].tok = UnknownToken /\ ~req[1].res.ok
    /\ Done(2, "validate_invitation") /\ req[2].tok = InvitationToken
    /\ req[2].res.error = "This invitation has already been used."
    /\ invitation.is_used /\ Len(sessions) = 1 /\ sessions[1].is_completed

\* C25: when two submit requests for the same (session, question) run
\* concurrently and no submission exists yet, at most one submissions row for
\* that pair exists afterwards.
C25_OneRowPerQuestion ==
    \A s \in SessionIds, q \in Questions :
      (\A p \in Procs : req[p].op = "submit" => req[p].pc = "done")
        => Cardinality(SubmissionsOf(s, q)) <= 1

\* C26: after reset_session on an invitation returns, no session row of the
\* invitation has a status other than terminated, the invitation has
\* is_used = false, and the invitation has as many session rows as before the
\* reset (nothing is deleted).
C26_ResetTerminatesAll ==
    [][\A p \in Procs :
         (req[p].op = "reset_session" /\ Steps(p))
           => /\ Len(sessions') = Len(sessions)
              /\ Returns(p) =>
                   /\ \A s \in SessionIds : sessions'[s].status = "terminated"
                   /\ ~invitation'.is_used]_vars

\* what a test case is worth, in units of 1 / Len(test_cases): its own marks if
\* given, else max_marks divided by the number of test cases
RECURSIVE WorthOfPassed(_, _, _, _)
WorthOfPassed(test_cases, passed, max_marks, n) ==
    IF n = 0 THEN 0
    ELSE WorthOfPassed(test_cases, passed, max_marks, n - 1)
         + (IF n \notin passed THEN 0
            ELSE IF test_cases[n].marks \in {Absent, Null} THEN max_marks
            ELSE test_cases[n].marks * Len(test_cases))

\* the submit requests whose coding answer, with code, to a question with test
\* cases has been graded
CodingGraded ==
    {p \in Procs :
       /\ req[p].op = "submit"
       /\ req[p].pc \in {"sb_grade", "score_read", "score_write"}
       /\ questions[req[p].q].question_type \in {"python", "javascript"}
       /\ Len(questions[req[p].q].test_cases) > 0
       /\ ~NoCode(req[p].answer.code_answer)}

\* C27: coding grading (python / javascript) with at least one test case: each
\* test case is worth its own marks if given, else max_marks divided by the
\* number of test cases; marks_obtained is the sum of the worths of the passed
\* cases capped at max_marks, test_cases_passed is the number of passed cases,
\* and is_correct is true exactly when all cases pass.
C27_CodingMarks ==
    \A p \in CodingGraded :
      LET question == questions[req[p].q]
          n == Len(question.test_cases)
          passed == req[p].run.passed
          result == req[p].grading
      IN /\ result.marks_obtained
              = RoundDiv(Min(WorthOfPassed(question.test_cases, passed, question.marks, n),
                             question.marks * n) * Cents, n)
         /\ result.test_cases_passed = Cardinality(passed)
         /\ result.is_correct = Bool(Cardinality(passed) = n)

\* the session row is active: started, not completed, expired or terminated
StillActive(row) == row.status = "active" /\ row.is_active /\ ~row.is_completed

\* C28: a submit, fetch-questions or log-activity request on a still-active
\* session whose expires_at has passed marks the session expired (status
\* expired, is_active false, is_expired true) and is rejected; a request whose
\* validation happens after expires_at creates or modifies no submission and
\* appends no activity log.
C28_LateRequestExpires ==
    [][\A p \in Procs :
         LET id == IdOfToken(req[p].tok) IN
         /\ (Steps(p) /\ req[p].op \in TokenOps /\ req[p].pc = "vs_read"
               /\ StillActive(sessions[id]) /\ now > sessions[id].expires_at)
              => /\ req'[p].pc = "vs_expire"
                 /\ Stored' = Stored
         /\ (Steps(p) /\ req[p].op \in TokenOps /\ req[p].pc = "vs_expire")
              => /\ sessions'[id].status = "expired"
                 /\ ~sessions'[id].is_active
                 /\ sessions'[id].is_expired
                 /\ req'[p].pc = "done"
                 /\ ~req'[p].res.ok
                 /\ req'[p].res.error = "Test session expired"
                 /\ req'[p].sanitized = <<>>
                 /\ <<submissions, activity_logs, grading_logs>>'
                      = <<submissions, activity_logs, grading_logs>>]_vars

\* a submit that arrived after expires_at was rejected, the session is expired
\* and the answer it accepted before is as it was
C28_Witness ==
    /\ Done(1, "submit")
    /\ req[1].res.error = "Test session expired"
    /\ sessions[1].status = "expired" /\ sessions[1].is_expired /\ ~sessions[1].is_active
    /\ Len(submissions) = 1 /\ submissions[1].status = "graded"
    /\ activity_logs = <<>>

\* C29: validate_session accepts only active sessions: for a session an
\* administrator terminated (terminate_session or reset_session) it returns
\* valid = false, so that the token of a terminated session can no longer fetch
\* questions, submit or resubmit answers, log activity or complete the session.
C29_TerminatedTokenRejected ==
    [][\A p \in Procs :
         (Steps(p) /\ req[p].pc = "vs_read"
            /\ sessions[IdOfToken(req[p].tok)].status = "terminated")
           => /\ req'[p].pc # "vs_touch"
              /\ req'[p].pc = "done" => ~req'[p].res.ok
              /\ Stored' = Stored]_vars

\* C30: a completed session stays completed and an expired session stays expired
\* under every interleaving of complete requests and validate_session calls
\* around the expiry instant: no step moves a row from completed to expired or
\* from expired to completed, and no row has both is_completed and is_expired.
C30_CompletedAndExpiredExclude ==
    [][\A s \in SessionIds :
         /\ ~(sessions[s].status = "completed" /\ sessions'[s].status = "expired")
         /\ ~(sessions[s].status = "expired" /\ sessions'[s].status = "completed")
         /\ ~(sessions'[s].is_completed /\ sessions'[s].is_expired)]_vars

\* C31: the persisted flags are consistent with status in every reachable state:
\* is_active is true exactly when status is active, is_completed exactly when it
\* is completed, and is_expired exactly when it is expired.
C31_FlagsFollowStatus ==
    \A s \in SessionIds :
      /\ sessions[s].is_active <=> sessions[s].status = "active"
      /\ sessions[s].is_completed <=> sessions[s].status = "completed"
      /\ sessions[s].is_expired <=> sessions[s].status = "expired"

\* C32: a complete request on a session that is already expired, or whose
\* expires_at has passed without the session having been touched yet, returns
\* the session's current row rather than an error, whether or not an earlier
\* request already triggered the lazy expiry.
C32_CompleteAfterDeadline ==
    [][\A p \in Procs :
         (req[p].op = "complete" /\ Returns(p)
            /\ sessions'[IdOfToken(req[p].tok)].status = "expired")
           => /\ req'[p].res.ok
              /\ req'[p].res.sid = IdOfToken(req[p].tok)]_vars

\* a submit, grading, scoring or complete request is in its handler
ScoringInFlight ==
    \E p \in Procs :
      /\ ~Free(p)
      /\ req[p].op \in {"submit", "manual_grade", "calculate_session_score", "complete"}

\* C33: whenever no submit or grading request is in flight for a session, the
\* session row's total_marks_obtained equals the sum of marks_obtained over the
\* session's graded submissions, also after concurrent submits to different
\* questions: no recomputation based on a stale read is the last one written.
C33_TotalIsSumOfGraded ==
    ~ScoringInFlight =>
      \A s \in SessionIds : sessions[s].total_marks_obtained = ExpectedObtained(s)

\* the activity log entries of session id with a suspicious activity type
SuspiciousLogged(id) ==
    {k \in 1..Len(activity_logs) :
       activity_logs[k].session_id = id /\ activity_logs[k].activity_type \in SuspiciousTypes}

\* C34: a session's suspicious_activity_count equals the number of log_activity
\* calls with a suspicious activity type completed for the session, also when
\* such calls run concurrently; every call appends exactly one activity log
\* entry, which is never modified or deleted.
C34_SuspiciousCount ==
    /\ Quiet =>
         /\ Len(activity_logs) = ActivityCalls - budget
         /\ \A s \in SessionIds :
              sessions[s].suspicious_activity_count = Cardinality(SuspiciousLogged(s))
    /\ Len(activity_logs) <= ActivityCalls - budget

\* C35: in every reachable state a session's score is within bounds,
\* 0 <= total_marks_obtained <= total_marks and 0 <= percentage_score <= 100,
\* after any sequence of submits, resubmits and manual grades, and every
\* submission has 0 <= marks_obtained <= max_marks.
C35_ScoreWithinBounds ==
    /\ \A s \in SessionIds :
         /\ 0 <= sessions[s].total_marks_obtained
         /\ sessions[s].total_marks_obtained <= sessions[s].total_marks * Cents
         /\ sessions[s].percentage_score # Null =>
              /\ 0 <= sessions[s].percentage_score
              /\ sessions[s].percentage_score <= 100 * Cents
    /\ \A i \in 1..Len(submissions) :
         /\ 0 <= submissions[i].marks_obtained
         /\ submissions[i].marks_obtained <= submissions[i].max_marks * Cents

\* C36: every session returned by a successful start_session (new or resumed)
\* and by a validate_invitation resume result is usable: its status is active,
\* and a session that is expired (status expired, or past expires_at) is never
\* handed back as a resumed session.
C36_ReturnedSessionUsable ==
    [][\A p \in Procs :
         (req[p].op \in {"start_session", "validate_invitation"} /\ Returns(p)
            /\ req'[p].res.ok /\ req'[p].res.sid # NoSession)
           => LET row == sessions'[req'[p].res.sid] IN
              /\ row.status = "active"
              /\ req'[p].res.resumed => ~(now > row.expires_at)]_vars

\* C37: resuming never extends or alters an attempt: a start_session or
\* validate_invitation that resumes an existing session leaves that session's
\* expires_at, started_at, session_token, scores and proctoring counters (and
\* every other stored row) unchanged, from its first call to the store to its
\* answer.
C37_ResumeAltersNothing ==
    [][\A p \in Procs :
         /\ (req[p].op \in {"start_session", "validate_invitation"} /\ Steps(p)
               /\ req[p].pc \in {"vi_read", "vi_sessions", "ss_existing"})
              => Stored' = Stored
         /\ (req[p].op \in {"start_session", "validate_invitation"} /\ Returns(p)
               /\ req'[p].res.resumed)
              => /\ req[p].pc \in {"vi_sessions", "ss_existing"}
                 /\ req'[p].res.sid \in SessionIds
                 /\ sessions'[req'[p].res.sid] = sessions[req'[p].res.sid]]_vars

\* a start_session has resumed a session started earlier, whose deadline is the
\* one it was given at its start
C37_Witness ==
    \E p \in Procs :
      /\ Done(p, "start_session")
      /\ req[p].res.ok /\ req[p].res.resumed
      /\ sessions[req[p].res.sid].started_at < now
      /\ sessions[req[p].res.sid].expires_at
           = sessions[req[p].res.sid].started_at + TestDuration

\* C38: once a session's status is completed, no submission of that session is
\* created or changed by a candidate submit request, a submit whose session
\* validation ran before the completion and whose writes run after it included.
C38_NoSubmitAfterCompletion ==
    [][\A s \in SessionIds :
         sessions[s].status = "completed" =>
           \A i \in 1..Len(submissions') :
             submissions'[i].session_id = s =>
               i <= Len(submissions) /\ submissions'[i] = submissions[i]]_vars

\* question q is one of the session's test
OnTheTest(q) == \E i \in 1..Len(test_questions) : test_questions[i] = q

\* C39: a submission is recorded and scored only for a question of the session's
\* test: every submissions row names a question of the test, and no step of a
\* submit that names a question outside the test changes the submissions or the
\* total_marks_obtained of a session.
C39_OnlyTestQuestionsScored ==
    [][/\ \A i \in 1..Len(submissions') : OnTheTest(submissions'[i].question_id)
       /\ \A p \in Procs :
            (req[p].op = "submit" /\ ~OnTheTest(req[p].q) /\ Steps(p)) =>
              /\ submissions' = submissions
              /\ \A s \in SessionIds :
                   sessions'[s].total_marks_obtained = sessions[s].total_marks_obtained]_vars

====
